---- MODULE Spec2Model ----
(***************************************************************************)
(* Ledger master key derivation (index.js): validateMnemonic,              *)
(* generateLedgerMasterKey, hashRepeatedly, tweakBits and toHexString.     *)
(*                                                                         *)
(* Buffers are sequences of bytes; JavaScript index i is position i + 1.   *)
(* JavaScript strings are strings.  The primitives of node's crypto module *)
(* and of the bip39 package are tabulated at the sampled inputs: every     *)
(* table entry is the value the standard function (PBKDF2-HMAC-SHA512,     *)
(* HMAC-SHA256, HMAC-SHA512, the BIP39 encoding) takes at that input.      *)
(***************************************************************************)
EXTENDS Integers, Sequences, FiniteSets, TLC

VARIABLES
  pc,        \* "idle": no call in progress; "hashing": inside hashRepeatedly
  caller,    \* who called hashRepeatedly: "user" or "generateLedgerMasterKey"
  hashArg,   \* the argument of the outermost hashRepeatedly call
  message,   \* the message parameter of the innermost hashRepeatedly frame
  chain,     \* the digests computed by the current/last hashRepeatedly call
  gen,       \* the frame of the current/last generateLedgerMasterKey call
  ret,       \* the call that returned last, while no call is in progress
  keys,      \* every (seed, password, masterKey) returned so far
  repeated,  \* the last generateLedgerMasterKey call was of an input derived before
  verifier,  \* the arguments the last call gave to bip39.validateMnemonic, in order
  heap,      \* the buffers of the current/last call of tweakBits, hashRepeatedly
             \* or generateLedgerMasterKey, and which of them was passed and returned
  cli,       \* a run of node index.js: its command line, environment and
             \* standard input, the position of main, and what it has written
  sh         \* a run of convert.sh: its arguments, environment, standard input,
             \* the tools installed, the output directories, its position, what
             \* it has written to stderr and its exit status

vars ==
  <<pc, caller, hashArg, message, chain, gen, ret, keys, repeated, verifier, heap, cli, sh>>

(***************************************************************************)
(* Bounds of the model.                                                    *)
(***************************************************************************)
\* the largest number of words in a generated validateMnemonic input
MaxWords == 25
\* the deepest hashRepeatedly recursion the model follows
MaxRounds == 8
\* the longest entropy, in bytes, generateLedgerMasterKey is called with
MaxEntropyBytes == 36

(***************************************************************************)
(* Bytes and bitwise operators (JavaScript &, | on values 0..255).         *)
(***************************************************************************)
Bit(a, k) == (a \div (2 ^ k)) % 2

BitAnd(a, b) ==
  LET f[k \in 0..8] == IF k = 8 THEN 0 ELSE Bit(a, k) * Bit(b, k) * (2 ^ k) + f[k + 1]
  IN  f[0]

BitOr(a, b) ==
  LET f[k \in 0..8] ==
        IF k = 8 THEN 0
        ELSE (IF Bit(a, k) + Bit(b, k) > 0 THEN 2 ^ k ELSE 0) + f[k + 1]
  IN  f[0]

\* data[i] read by a bitwise operator: an index past the end reads undefined,
\* which & and | coerce to 0
LoadByte(data, i) == IF i < Len(data) THEN data[i + 1] ELSE 0

\* data[i] = v on a Buffer/Uint8Array: an index past the end stores nothing
StoreByte(data, i, v) == IF i < Len(data) THEN [data EXCEPT ![i + 1] = v % 256] ELSE data

Last(s) == s[Len(s)]

\* Buffer.alloc(n, byte)
Filled(n, byte) == [k \in 1..n |-> byte]

(***************************************************************************)
(* Characters and words of a string.                                       *)
(***************************************************************************)
CharAt(s, k) == SubSeq(s, k, k)

\* the characters \s matches and trim() strips, among those the inputs use
IsWhiteSpace(c) == c \in {" ", "\t", "\n", "\r"}

\* the k-th word of a sentence of words separated by white space
WordStarts(s) ==
  {k \in 1..Len(s) : ~IsWhiteSpace(CharAt(s, k)) /\ (k = 1 \/ IsWhiteSpace(CharAt(s, k - 1)))}

NumberOfWords(s) == Cardinality(WordStarts(s))
Nth(S, n) == CHOOSE k \in S : Cardinality({j \in S : j < k}) = n - 1
Word(s, n) ==
  SubSeq(s, Nth(WordStarts(s), n),
         Nth({k \in 1..Len(s) :
                ~IsWhiteSpace(CharAt(s, k)) /\ (k = Len(s) \/ IsWhiteSpace(CharAt(s, k + 1)))},
             n))

(***************************************************************************)
(* Digits of radix 16.                                                     *)
(***************************************************************************)
\* a digit test that knows the lower-case letters only
IsHexDigitLower(c) ==
  c \in {"0", "1", "2", "3", "4", "5", "6", "7", "8", "9", "a", "b", "c", "d", "e", "f"}

\* the digits parseInt accepts in radix 16
IsHexDigit(c) ==
  c \in {"0", "1", "2", "3", "4", "5", "6", "7", "8", "9", "a", "b", "c", "d", "e", "f",
         "A", "B", "C", "D", "E", "F"}

\* the value of a digit of radix 16
HexDigitValue(c) ==
  CASE c = "0" -> 0 [] c = "1" -> 1 [] c = "2" -> 2 [] c = "3" -> 3 [] c = "4" -> 4
    [] c = "5" -> 5 [] c = "6" -> 6 [] c = "7" -> 7 [] c = "8" -> 8 [] c = "9" -> 9
    [] c \in {"a", "A"} -> 10 [] c \in {"b", "B"} -> 11 [] c \in {"c", "C"} -> 12
    [] c \in {"d", "D"} -> 13 [] c \in {"e", "E"} -> 14 [] c \in {"f", "F"} -> 15

(***************************************************************************)
(* The collaborators' values at the sampled inputs.                        *)
(***************************************************************************)
ENTROPY_MNEMONIC_SAMPLES ==
  { [entropy |-> "00000000000000000000000000000000",
      mnemonic |-> "abandon abandon abandon abandon abandon abandon abandon abandon abandon abandon abandon about"],
    [entropy |-> "0000000000000000000000000000007f",
      mnemonic |-> "abandon abandon abandon abandon abandon abandon abandon abandon abandon abandon abandon wrap"],
    [entropy |-> "0000000000000000000000000000000000000000",
      mnemonic |-> "abandon abandon abandon abandon abandon abandon abandon abandon abandon abandon abandon abandon abandon abandon address"],
    [entropy |-> "000000000000000000000000000000000000000000000000",
      mnemonic |-> "abandon abandon abandon abandon abandon abandon abandon abandon abandon abandon abandon abandon abandon abandon abandon abandon abandon agent"],
    [entropy |-> "00000000000000000000000000000000000000000000000000000000",
      mnemonic |-> "abandon abandon abandon abandon abandon abandon abandon abandon abandon abandon abandon abandon abandon abandon abandon abandon abandon abandon abandon abandon admit"],
    [entropy |-> "0000000000000000000000000000000000000000000000000000000000000000",
      mnemonic |-> "abandon abandon abandon abandon abandon abandon abandon abandon abandon abandon abandon abandon abandon abandon abandon abandon abandon abandon abandon abandon abandon abandon abandon art"] }

PBKDF2_SAMPLES ==
  { [password |-> "abandon abandon abandon abandon abandon abandon abandon abandon abandon abandon abandon about",
      salt |-> "mnemonic", iterations |-> 2048, keylen |-> 64, digest |-> "sha512",
      derived |-> <<94, 176, 11, 189, 220, 240, 105, 8, 72, 137, 168, 171, 145, 85, 86, 129, 101, 245, 196, 83, 204,
        184, 94, 112, 129, 26, 174, 214, 246, 218, 95, 193, 154, 90, 196, 11, 56, 156, 211, 112,
        208, 134, 32, 109, 236, 138, 166, 196, 61, 174, 166, 105, 15, 32, 173, 61, 141, 72, 178,
        210, 206, 158, 56, 228>>],
    [password |-> "abandon abandon abandon abandon abandon abandon abandon abandon abandon abandon abandon about",
      salt |-> "mnemonicTREZOR", iterations |-> 2048, keylen |-> 64, digest |-> "sha512",
      derived |-> <<197, 82, 87, 195, 96, 192, 124, 114, 2, 154, 235, 193, 181, 60, 5, 237, 3, 98, 173, 163, 142,
        173, 62, 62, 158, 250, 55, 8, 229, 52, 149, 83, 31, 9, 166, 152, 117, 153, 209, 130, 100,
        193, 225, 201, 47, 44, 241, 65, 99, 12, 122, 60, 74, 183, 200, 27, 47, 0, 22, 152, 231, 70,
        59, 4>>],
    [password |-> "abandon abandon abandon abandon abandon abandon abandon abandon abandon abandon abandon about",
      salt |-> "mnemonicb", iterations |-> 2048, keylen |-> 64, digest |-> "sha512",
      derived |-> <<136, 49, 76, 230, 168, 44, 161, 16, 178, 105, 112, 238, 70, 234, 35, 148, 87, 229, 154, 108, 133,
        26, 90, 113, 24, 236, 21, 98, 216, 185, 8, 233, 234, 183, 179, 20, 198, 7, 15, 234, 92, 70,
        188, 254, 182, 47, 95, 89, 242, 101, 68, 36, 79, 97, 237, 96, 224, 74, 45, 90, 164, 198,
        179, 168>>],
    [password |-> "abandon abandon abandon abandon abandon abandon abandon abandon abandon abandon abandon about",
      salt |-> "mnemonice", iterations |-> 2048, keylen |-> 64, digest |-> "sha512",
      derived |-> <<106, 151, 5, 28, 107, 36, 200, 97, 170, 8, 127, 115, 92, 127, 97, 170, 141, 19, 139, 150, 249,
        229, 211, 220, 176, 66, 233, 182, 92, 46, 31, 74, 103, 26, 173, 84, 25, 185, 197, 245, 145,
        122, 15, 24, 123, 43, 162, 52, 248, 49, 70, 219, 34, 92, 132, 180, 181, 134, 101, 171, 87,
        176, 128, 243>>],
    [password |-> "abandon abandon abandon abandon abandon abandon abandon abandon abandon abandon abandon wrap",
      salt |-> "mnemonic", iterations |-> 2048, keylen |-> 64, digest |-> "sha512",
      derived |-> <<90, 253, 47, 190, 190, 165, 76, 39, 64, 59, 154, 145, 133, 203, 176, 141, 188, 44, 95, 94, 56,
        183, 68, 187, 168, 136, 44, 223, 247, 194, 52, 191, 154, 221, 112, 50, 190, 110, 169, 254,
        192, 31, 56, 16, 149, 58, 210, 210, 117, 54, 137, 211, 252, 222, 91, 25, 137, 119, 41, 209,
        41, 160, 6, 250>>],
    [password |-> "abandon abandon abandon abandon abandon abandon abandon abandon abandon abandon abandon wrap",
      salt |-> "mnemonicTREZOR", iterations |-> 2048, keylen |-> 64, digest |-> "sha512",
      derived |-> <<29, 157, 84, 48, 195, 35, 172, 53, 52, 199, 41, 53, 212, 0, 165, 169, 8, 194, 237, 82, 158, 130,
        177, 156, 168, 161, 65, 152, 35, 232, 16, 7, 126, 250, 23, 49, 118, 133, 203, 31, 53, 147,
        107, 205, 120, 129, 5, 163, 118, 117, 132, 255, 182, 26, 88, 81, 126, 189, 110, 73, 169,
        235, 246, 42>>],
    [password |-> "abandon abandon abandon abandon abandon abandon abandon abandon abandon abandon abandon abandon abandon abandon abandon abandon abandon abandon abandon abandon abandon abandon abandon art",
      salt |-> "mnemonic", iterations |-> 2048, keylen |-> 64, digest |-> "sha512",
      derived |-> <<64, 139, 40, 92, 18, 56, 54, 0, 79, 75, 136, 66, 200, 147, 36, 193, 240, 19, 130, 69, 12, 13, 67,
        154, 243, 69, 186, 127, 196, 154, 207, 112, 84, 137, 198, 252, 119, 219, 212, 227, 220, 29,
        216, 204, 107, 201, 240, 67, 219, 138, 218, 30, 36, 60, 74, 14, 175, 178, 144, 211, 153,
        72, 8, 64>>],
    [password |-> "abandon abandon abandon abandon abandon abandon abandon abandon abandon abandon abandon abandon abandon abandon address",
      salt |-> "mnemonic", iterations |-> 2048, keylen |-> 64, digest |-> "sha512",
      derived |-> <<110, 147, 96, 232, 213, 17, 248, 90, 220, 218, 123, 246, 7, 130, 7, 240, 178, 209, 41, 51, 132,
        89, 83, 188, 118, 96, 65, 203, 113, 172, 59, 246, 68, 255, 173, 213, 124, 170, 194, 68, 6,
        102, 87, 232, 235, 224, 30, 250, 14, 57, 77, 26, 250, 115, 49, 55, 154, 60, 26, 235, 214,
        143, 102, 69>>],
    [password |-> "abandon abandon abandon abandon abandon abandon abandon abandon abandon abandon abandon abandon abandon abandon abandon abandon abandon agent",
      salt |-> "mnemonic", iterations |-> 2048, keylen |-> 64, digest |-> "sha512",
      derived |-> <<73, 117, 187, 61, 31, 175, 83, 8, 200, 106, 48, 137, 62, 233, 3, 169, 118, 41, 102, 9, 219, 34,
        63, 215, 23, 226, 39, 218, 90, 129, 58, 52, 220, 20, 40, 183, 28, 132, 167, 135, 252, 81,
        243, 185, 249, 220, 40, 233, 69, 159, 72, 192, 139, 217, 87, 142, 157, 27, 23, 15, 45, 126,
        165, 6>>],
    [password |-> "abandon abandon abandon abandon abandon abandon abandon abandon abandon abandon abandon abandon abandon abandon abandon abandon abandon abandon abandon abandon admit",
      salt |-> "mnemonic", iterations |-> 2048, keylen |-> 64, digest |-> "sha512",
      derived |-> <<39, 127, 232, 105, 28, 150, 93, 138, 71, 67, 157, 31, 247, 113, 217, 186, 214, 3, 87, 91, 142,
        141, 140, 238, 108, 185, 7, 161, 53, 153, 146, 194, 42, 183, 54, 179, 104, 89, 249, 237,
        207, 211, 59, 254, 249, 78, 13, 33, 173, 41, 95, 248, 17, 148, 101, 44, 110, 135, 189, 104,
        40, 155, 53, 34>>],
    [password |-> "abandon abandon abandon abandon abandon abandon abandon abandon abandon abandon abandon wrap",
      salt |-> "mnemonicb", iterations |-> 2048, keylen |-> 64, digest |-> "sha512",
      derived |-> <<225, 238, 247, 11, 52, 235, 11, 121, 98, 183, 141, 217, 216, 163, 204, 1, 62, 119, 87, 174, 234,
        141, 157, 252, 94, 37, 84, 95, 134, 192, 231, 242, 161, 201, 154, 91, 234, 204, 153, 62,
        182, 39, 98, 167, 98, 116, 105, 189, 126, 71, 228, 2, 210, 237, 17, 174, 19, 241, 83, 16,
        95, 56, 42, 207>>],
    [password |-> "abandon abandon abandon abandon abandon abandon abandon abandon abandon abandon abandon abandon abandon abandon abandon abandon abandon abandon abandon abandon abandon abandon abandon art",
      salt |-> "mnemonicTREZOR", iterations |-> 2048, keylen |-> 64, digest |-> "sha512",
      derived |-> <<189, 168, 84, 70, 198, 132, 19, 112, 112, 144, 165, 32, 34, 237, 210, 106, 28, 148, 98, 41, 80,
        41, 242, 230, 12, 215, 196, 242, 187, 211, 9, 113, 112, 175, 122, 77, 115, 36, 92, 175,
        169, 195, 204, 168, 213, 97, 167, 195, 222, 111, 93, 74, 16, 190, 142, 210, 165, 230, 8,
        214, 143, 146, 252, 200>>],
    [password |-> "abandon abandon abandon abandon abandon abandon abandon abandon abandon abandon abandon abandon abandon abandon abandon abandon abandon abandon abandon abandon abandon abandon abandon art",
      salt |-> "mnemonicb", iterations |-> 2048, keylen |-> 64, digest |-> "sha512",
      derived |-> <<134, 120, 237, 123, 39, 97, 59, 109, 37, 25, 239, 70, 245, 49, 54, 22, 21, 45, 90, 204, 0, 248,
        36, 157, 136, 176, 136, 22, 156, 11, 229, 73, 154, 250, 236, 240, 56, 1, 78, 79, 73, 107,
        54, 2, 207, 70, 86, 167, 82, 168, 64, 186, 154, 58, 149, 126, 99, 65, 200, 47, 166, 102,
        53, 14>>],
    [password |-> "abandon abandon abandon abandon abandon abandon abandon abandon abandon abandon abandon abandon abandon abandon abandon abandon abandon agent",
      salt |-> "mnemonicTREZOR", iterations |-> 2048, keylen |-> 64, digest |-> "sha512",
      derived |-> <<3, 88, 149, 242, 244, 129, 177, 176, 240, 31, 207, 140, 40, 156, 121, 70, 96, 178, 137, 152, 26,
        120, 248, 16, 100, 71, 112, 127, 221, 150, 102, 202, 6, 218, 90, 154, 86, 81, 129, 89, 155,
        121, 245, 59, 132, 77, 138, 113, 221, 159, 67, 156, 82, 163, 215, 179, 232, 167, 156, 144,
        106, 200, 69, 250>>],
    [password |-> "abandon abandon abandon abandon abandon abandon abandon abandon abandon abandon abandon abandon abandon abandon abandon abandon abandon agent",
      salt |-> "mnemonicb", iterations |-> 2048, keylen |-> 64, digest |-> "sha512",
      derived |-> <<237, 151, 225, 247, 45, 37, 40, 77, 53, 51, 123, 168, 234, 105, 112, 76, 135, 71, 113, 223, 35,
        74, 184, 50, 122, 12, 162, 127, 187, 148, 86, 183, 40, 150, 145, 228, 204, 64, 82, 219,
        102, 72, 40, 133, 12, 17, 252, 153, 20, 197, 42, 246, 120, 13, 71, 231, 14, 57, 90, 138,
        217, 78, 3, 164>>] }

HMAC_SHA256_SAMPLES ==
  { [key |-> "ed25519 seed",
      message |-> <<1, 94, 176, 11, 189, 220, 240, 105, 8, 72, 137, 168, 171, 145, 85, 86, 129, 101, 245, 196, 83,
        204, 184, 94, 112, 129, 26, 174, 214, 246, 218, 95, 193, 154, 90, 196, 11, 56, 156, 211,
        112, 208, 134, 32, 109, 236, 138, 166, 196, 61, 174, 166, 105, 15, 32, 173, 61, 141, 72,
        178, 210, 206, 158, 56, 228>>,
      digest |-> <<50, 89, 100, 53, 231, 6, 71, 215, 217, 142, 241, 2, 163, 46, 164, 3, 25, 202, 143, 182, 200, 81,
        215, 52, 109, 59, 216, 249, 209, 73, 38, 88>>],
    [key |-> "ed25519 seed",
      message |-> <<1, 197, 82, 87, 195, 96, 192, 124, 114, 2, 154, 235, 193, 181, 60, 5, 237, 3, 98, 173, 163, 142,
        173, 62, 62, 158, 250, 55, 8, 229, 52, 149, 83, 31, 9, 166, 152, 117, 153, 209, 130, 100,
        193, 225, 201, 47, 44, 241, 65, 99, 12, 122, 60, 74, 183, 200, 27, 47, 0, 22, 152, 231, 70,
        59, 4>>,
      digest |-> <<255, 209, 168, 90, 162, 116, 209, 245, 175, 250, 4, 214, 204, 236, 214, 195, 86, 76, 246, 192,
        25, 25, 28, 149, 97, 38, 33, 143, 146, 176, 164, 136>>],
    [key |-> "ed25519 seed",
      message |-> <<1, 136, 49, 76, 230, 168, 44, 161, 16, 178, 105, 112, 238, 70, 234, 35, 148, 87, 229, 154, 108,
        133, 26, 90, 113, 24, 236, 21, 98, 216, 185, 8, 233, 234, 183, 179, 20, 198, 7, 15, 234,
        92, 70, 188, 254, 182, 47, 95, 89, 242, 101, 68, 36, 79, 97, 237, 96, 224, 74, 45, 90, 164,
        198, 179, 168>>,
      digest |-> <<112, 114, 209, 152, 215, 28, 117, 194, 74, 183, 62, 111, 39, 158, 252, 177, 4, 176, 75, 19, 77,
        131, 171, 105, 57, 69, 93, 170, 45, 240, 254, 205>>],
    [key |-> "ed25519 seed",
      message |-> <<1, 106, 151, 5, 28, 107, 36, 200, 97, 170, 8, 127, 115, 92, 127, 97, 170, 141, 19, 139, 150, 249,
        229, 211, 220, 176, 66, 233, 182, 92, 46, 31, 74, 103, 26, 173, 84, 25, 185, 197, 245, 145,
        122, 15, 24, 123, 43, 162, 52, 248, 49, 70, 219, 34, 92, 132, 180, 181, 134, 101, 171, 87,
        176, 128, 243>>,
      digest |-> <<99, 35, 149, 114, 172, 110, 92, 177, 3, 9, 175, 188, 226, 143, 47, 44, 51, 148, 180, 193, 206,
        94, 73, 28, 85, 210, 214, 64, 131, 74, 247, 36>>],
    [key |-> "ed25519 seed",
      message |-> <<1, 90, 253, 47, 190, 190, 165, 76, 39, 64, 59, 154, 145, 133, 203, 176, 141, 188, 44, 95, 94, 56,
        183, 68, 187, 168, 136, 44, 223, 247, 194, 52, 191, 154, 221, 112, 50, 190, 110, 169, 254,
        192, 31, 56, 16, 149, 58, 210, 210, 117, 54, 137, 211, 252, 222, 91, 25, 137, 119, 41, 209,
        41, 160, 6, 250>>,
      digest |-> <<249, 208, 222, 3, 91, 55, 92, 146, 174, 31, 182, 204, 7, 164, 198, 122, 194, 101, 163, 121, 197,
        26, 163, 135, 0, 51, 38, 164, 143, 235, 113, 131>>],
    [key |-> "ed25519 seed",
      message |-> <<1, 29, 157, 84, 48, 195, 35, 172, 53, 52, 199, 41, 53, 212, 0, 165, 169, 8, 194, 237, 82, 158,
        130, 177, 156, 168, 161, 65, 152, 35, 232, 16, 7, 126, 250, 23, 49, 118, 133, 203, 31, 53,
        147, 107, 205, 120, 129, 5, 163, 118, 117, 132, 255, 182, 26, 88, 81, 126, 189, 110, 73,
        169, 235, 246, 42>>,
      digest |-> <<46, 78, 113, 218, 221, 50, 85, 212, 127, 68, 24, 104, 108, 10, 148, 15, 52, 8, 8, 239, 56, 166,
        19, 123, 98, 107, 212, 227, 36, 141, 189, 66>>],
    [key |-> "ed25519 seed",
      message |-> <<1, 64, 139, 40, 92, 18, 56, 54, 0, 79, 75, 136, 66, 200, 147, 36, 193, 240, 19, 130, 69, 12, 13,
        67, 154, 243, 69, 186, 127, 196, 154, 207, 112, 84, 137, 198, 252, 119, 219, 212, 227, 220,
        29, 216, 204, 107, 201, 240, 67, 219, 138, 218, 30, 36, 60, 74, 14, 175, 178, 144, 211,
        153, 72, 8, 64>>,
      digest |-> <<197, 205, 220, 133, 182, 40, 52, 106, 55, 111, 163, 24, 34, 155, 51, 233, 253, 214, 20, 172, 189,
        41, 167, 62, 228, 49, 151, 111, 254, 253, 18, 43>>],
    [key |-> "ed25519 seed",
      message |-> <<1, 110, 147, 96, 232, 213, 17, 248, 90, 220, 218, 123, 246, 7, 130, 7, 240, 178, 209, 41, 51,
        132, 89, 83, 188, 118, 96, 65, 203, 113, 172, 59, 246, 68, 255, 173, 213, 124, 170, 194,
        68, 6, 102, 87, 232, 235, 224, 30, 250, 14, 57, 77, 26, 250, 115, 49, 55, 154, 60, 26, 235,
        214, 143, 102, 69>>,
      digest |-> <<39, 110, 122, 96, 16, 45, 25, 130, 106, 239, 146, 61, 203, 180, 197, 220, 79, 239, 246, 161, 190,
        195, 78, 199, 38, 220, 170, 135, 47, 35, 104, 226>>],
    [key |-> "ed25519 seed",
      message |-> <<1, 73, 117, 187, 61, 31, 175, 83, 8, 200, 106, 48, 137, 62, 233, 3, 169, 118, 41, 102, 9, 219,
        34, 63, 215, 23, 226, 39, 218, 90, 129, 58, 52, 220, 20, 40, 183, 28, 132, 167, 135, 252,
        81, 243, 185, 249, 220, 40, 233, 69, 159, 72, 192, 139, 217, 87, 142, 157, 27, 23, 15, 45,
        126, 165, 6>>,
      digest |-> <<7, 121, 67, 181, 158, 205, 184, 174, 126, 163, 77, 247, 203, 138, 19, 253, 146, 112, 226, 189,
        108, 102, 29, 242, 3, 101, 223, 51, 134, 30, 92, 174>>],
    [key |-> "ed25519 seed",
      message |-> <<1, 39, 127, 232, 105, 28, 150, 93, 138, 71, 67, 157, 31, 247, 113, 217, 186, 214, 3, 87, 91, 142,
        141, 140, 238, 108, 185, 7, 161, 53, 153, 146, 194, 42, 183, 54, 179, 104, 89, 249, 237,
        207, 211, 59, 254, 249, 78, 13, 33, 173, 41, 95, 248, 17, 148, 101, 44, 110, 135, 189, 104,
        40, 155, 53, 34>>,
      digest |-> <<28, 236, 224, 147, 92, 92, 128, 45, 31, 164, 81, 229, 200, 31, 28, 174, 163, 222, 56, 242, 129,
        76, 185, 65, 234, 220, 44, 217, 62, 137, 61, 89>>],
    [key |-> "ed25519 seed",
      message |-> <<1, 225, 238, 247, 11, 52, 235, 11, 121, 98, 183, 141, 217, 216, 163, 204, 1, 62, 119, 87, 174,
        234, 141, 157, 252, 94, 37, 84, 95, 134, 192, 231, 242, 161, 201, 154, 91, 234, 204, 153,
        62, 182, 39, 98, 167, 98, 116, 105, 189, 126, 71, 228, 2, 210, 237, 17, 174, 19, 241, 83,
        16, 95, 56, 42, 207>>,
      digest |-> <<133, 159, 184, 72, 234, 97, 197, 40, 126, 246, 239, 148, 218, 249, 13, 94, 236, 62, 48, 165, 218,
        110, 180, 25, 227, 109, 78, 190, 243, 217, 113, 105>>],
    [key |-> "ed25519 seed",
      message |-> <<1, 189, 168, 84, 70, 198, 132, 19, 112, 112, 144, 165, 32, 34, 237, 210, 106, 28, 148, 98, 41,
        80, 41, 242, 230, 12, 215, 196, 242, 187, 211, 9, 113, 112, 175, 122, 77, 115, 36, 92, 175,
        169, 195, 204, 168, 213, 97, 167, 195, 222, 111, 93, 74, 16, 190, 142, 210, 165, 230, 8,
        214, 143, 146, 252, 200>>,
      digest |-> <<162, 166, 124, 168, 126, 34, 71, 14, 200, 29, 24, 145, 232, 215, 42, 141, 103, 67, 97, 147, 58,
        1, 13, 129, 109, 207, 10, 13, 162, 51, 84, 31>>],
    [key |-> "ed25519 seed",
      message |-> <<1, 134, 120, 237, 123, 39, 97, 59, 109, 37, 25, 239, 70, 245, 49, 54, 22, 21, 45, 90, 204, 0,
        248, 36, 157, 136, 176, 136, 22, 156, 11, 229, 73, 154, 250, 236, 240, 56, 1, 78, 79, 73,
        107, 54, 2, 207, 70, 86, 167, 82, 168, 64, 186, 154, 58, 149, 126, 99, 65, 200, 47, 166,
        102, 53, 14>>,
      digest |-> <<192, 127, 35, 72, 207, 77, 140, 147, 164, 23, 215, 113, 195, 61, 90, 215, 46, 8, 104, 238, 144,
        121, 64, 10, 172, 62, 87, 2, 1, 209, 31, 49>>],
    [key |-> "ed25519 seed",
      message |-> <<1, 3, 88, 149, 242, 244, 129, 177, 176, 240, 31, 207, 140, 40, 156, 121, 70, 96, 178, 137, 152,
        26, 120, 248, 16, 100, 71, 112, 127, 221, 150, 102, 202, 6, 218, 90, 154, 86, 81, 129, 89,
        155, 121, 245, 59, 132, 77, 138, 113, 221, 159, 67, 156, 82, 163, 215, 179, 232, 167, 156,
        144, 106, 200, 69, 250>>,
      digest |-> <<78, 93, 45, 44, 123, 12, 91, 118, 138, 9, 95, 197, 237, 100, 191, 5, 37, 199, 80, 190, 191, 19,
        148, 138, 61, 27, 158, 85, 149, 148, 183, 62>>],
    [key |-> "ed25519 seed",
      message |-> <<1, 237, 151, 225, 247, 45, 37, 40, 77, 53, 51, 123, 168, 234, 105, 112, 76, 135, 71, 113, 223,
        35, 74, 184, 50, 122, 12, 162, 127, 187, 148, 86, 183, 40, 150, 145, 228, 204, 64, 82, 219,
        102, 72, 40, 133, 12, 17, 252, 153, 20, 197, 42, 246, 120, 13, 71, 231, 14, 57, 90, 138,
        217, 78, 3, 164>>,
      digest |-> <<86, 34, 159, 75, 221, 6, 169, 115, 132, 149, 204, 82, 132, 145, 152, 39, 147, 95, 143, 5, 163,
        172, 246, 127, 5, 88, 90, 108, 66, 149, 175, 198>>] }

HMAC_SHA512_SAMPLES ==
  { [key |-> "ed25519 seed",
      message |-> <<94, 176, 11, 189, 220, 240, 105, 8, 72, 137, 168, 171, 145, 85, 86, 129, 101, 245, 196, 83, 204,
        184, 94, 112, 129, 26, 174, 214, 246, 218, 95, 193, 154, 90, 196, 11, 56, 156, 211, 112,
        208, 134, 32, 109, 236, 138, 166, 196, 61, 174, 166, 105, 15, 32, 173, 61, 141, 72, 178,
        210, 206, 158, 56, 228>>,
      digest |-> <<86, 15, 159, 60, 148, 85, 139, 101, 81, 146, 139, 183, 129, 207, 96, 146, 198, 184, 128, 11, 79,
        197, 68, 175, 44, 148, 68, 237, 18, 109, 81, 170, 221, 250, 113, 16, 151, 1, 187, 247, 193,
        38, 200, 199, 171, 88, 128, 176, 222, 195, 209, 103, 168, 254, 106, 250, 122, 149, 151,
        223, 11, 190, 231, 43>>],
    [key |-> "ed25519 seed",
      message |-> <<86, 15, 159, 60, 148, 85, 139, 101, 81, 146, 139, 183, 129, 207, 96, 146, 198, 184, 128, 11, 79,
        197, 68, 175, 44, 148, 68, 237, 18, 109, 81, 170, 221, 250, 113, 16, 151, 1, 187, 247, 193,
        38, 200, 199, 171, 88, 128, 176, 222, 195, 209, 103, 168, 254, 106, 250, 122, 149, 151,
        223, 11, 190, 231, 43>>,
      digest |-> <<63, 240, 252, 253, 101, 182, 59, 83, 24, 250, 140, 151, 2, 149, 192, 137, 197, 155, 181, 182, 65,
        83, 28, 107, 12, 99, 249, 195, 166, 149, 3, 247, 131, 174, 68, 58, 114, 103, 21, 143, 161,
        84, 16, 230, 147, 16, 121, 39, 164, 3, 138, 234, 125, 210, 142, 70, 11, 240, 177, 84, 105,
        60, 122, 244>>],
    [key |-> "ed25519 seed",
      message |-> <<63, 240, 252, 253, 101, 182, 59, 83, 24, 250, 140, 151, 2, 149, 192, 137, 197, 155, 181, 182, 65,
        83, 28, 107, 12, 99, 249, 195, 166, 149, 3, 247, 131, 174, 68, 58, 114, 103, 21, 143, 161,
        84, 16, 230, 147, 16, 121, 39, 164, 3, 138, 234, 125, 210, 142, 70, 11, 240, 177, 84, 105,
        60, 122, 244>>,
      digest |-> <<231, 127, 179, 181, 187, 133, 116, 92, 242, 17, 150, 216, 102, 100, 112, 182, 211, 68, 210, 127,
        102, 242, 23, 56, 49, 54, 131, 230, 196, 228, 15, 99, 111, 251, 208, 196, 118, 106, 63,
        192, 109, 155, 208, 59, 225, 212, 216, 52, 80, 198, 78, 238, 87, 228, 136, 245, 115, 159,
        248, 218, 206, 168, 153, 197>>],
    [key |-> "ed25519 seed",
      message |-> <<231, 127, 179, 181, 187, 133, 116, 92, 242, 17, 150, 216, 102, 100, 112, 182, 211, 68, 210, 127,
        102, 242, 23, 56, 49, 54, 131, 230, 196, 228, 15, 99, 111, 251, 208, 196, 118, 106, 63,
        192, 109, 155, 208, 59, 225, 212, 216, 52, 80, 198, 78, 238, 87, 228, 136, 245, 115, 159,
        248, 218, 206, 168, 153, 197>>,
      digest |-> <<82, 42, 93, 230, 77, 231, 213, 13, 124, 67, 229, 158, 3, 16, 109, 46, 91, 229, 253, 71, 117, 233,
        62, 2, 172, 26, 234, 171, 242, 206, 238, 160, 29, 85, 98, 111, 155, 4, 32, 22, 22, 98, 216,
        249, 36, 177, 54, 2, 226, 172, 91, 92, 98, 105, 110, 203, 88, 218, 110, 223, 165, 88, 208,
        24>>],
    [key |-> "ed25519 seed",
      message |-> <<82, 42, 93, 230, 77, 231, 213, 13, 124, 67, 229, 158, 3, 16, 109, 46, 91, 229, 253, 71, 117, 233,
        62, 2, 172, 26, 234, 171, 242, 206, 238, 160, 29, 85, 98, 111, 155, 4, 32, 22, 22, 98, 216,
        249, 36, 177, 54, 2, 226, 172, 91, 92, 98, 105, 110, 203, 88, 218, 110, 223, 165, 88, 208,
        24>>,
      digest |-> <<66, 43, 3, 205, 156, 139, 237, 155, 169, 249, 189, 108, 217, 195, 21, 206, 159, 204, 89, 199,
        194, 93, 55, 200, 90, 54, 9, 102, 23, 230, 157, 193, 142, 53, 203, 74, 59, 115, 122, 253,
        0, 127, 6, 136, 97, 143, 33, 168, 131, 22, 67, 192, 230, 199, 127, 195, 60, 6, 2, 109, 42,
        15, 201, 56>>],
    [key |-> "ed25519 seed",
      message |-> <<197, 82, 87, 195, 96, 192, 124, 114, 2, 154, 235, 193, 181, 60, 5, 237, 3, 98, 173, 163, 142,
        173, 62, 62, 158, 250, 55, 8, 229, 52, 149, 83, 31, 9, 166, 152, 117, 153, 209, 130, 100,
        193, 225, 201, 47, 44, 241, 65, 99, 12, 122, 60, 74, 183, 200, 27, 47, 0, 22, 152, 231, 70,
        59, 4>>,
      digest |-> <<92, 116, 190, 85, 151, 240, 117, 12, 74, 254, 177, 133, 192, 240, 141, 243, 93, 255, 197, 92,
        184, 88, 250, 230, 191, 100, 164, 84, 39, 188, 203, 134, 209, 140, 228, 164, 186, 244, 235,
        234, 183, 105, 68, 226, 2, 156, 42, 99, 163, 198, 90, 86, 197, 31, 109, 81, 206, 148, 155,
        27, 249, 247, 218, 107>>],
    [key |-> "ed25519 seed",
      message |-> <<136, 49, 76, 230, 168, 44, 161, 16, 178, 105, 112, 238, 70, 234, 35, 148, 87, 229, 154, 108, 133,
        26, 90, 113, 24, 236, 21, 98, 216, 185, 8, 233, 234, 183, 179, 20, 198, 7, 15, 234, 92, 70,
        188, 254, 182, 47, 95, 89, 242, 101, 68, 36, 79, 97, 237, 96, 224, 74, 45, 90, 164, 198,
        179, 168>>,
      digest |-> <<203, 119, 247, 88, 244, 105, 246, 171, 88, 159, 157, 219, 11, 138, 150, 152, 50, 154, 11, 5, 80,
        193, 110, 145, 186, 73, 41, 85, 20, 219, 215, 114, 164, 199, 35, 165, 66, 215, 25, 252,
        200, 153, 152, 189, 216, 207, 223, 49, 74, 36, 97, 103, 60, 244, 21, 134, 39, 0, 241, 47,
        19, 162, 14, 157>>],
    [key |-> "ed25519 seed",
      message |-> <<203, 119, 247, 88, 244, 105, 246, 171, 88, 159, 157, 219, 11, 138, 150, 152, 50, 154, 11, 5, 80,
        193, 110, 145, 186, 73, 41, 85, 20, 219, 215, 114, 164, 199, 35, 165, 66, 215, 25, 252,
        200, 153, 152, 189, 216, 207, 223, 49, 74, 36, 97, 103, 60, 244, 21, 134, 39, 0, 241, 47,
        19, 162, 14, 157>>,
      digest |-> <<64, 110, 113, 243, 155, 31, 160, 18, 234, 185, 122, 119, 126, 92, 96, 104, 120, 168, 126, 40, 20,
        86, 223, 27, 190, 100, 139, 225, 38, 26, 227, 37, 128, 31, 83, 134, 143, 164, 98, 206, 170,
        99, 81, 214, 20, 225, 210, 201, 206, 184, 131, 169, 39, 253, 137, 162, 4, 105, 156, 192,
        164, 179, 220, 95>>],
    [key |-> "ed25519 seed",
      message |-> <<64, 110, 113, 243, 155, 31, 160, 18, 234, 185, 122, 119, 126, 92, 96, 104, 120, 168, 126, 40, 20,
        86, 223, 27, 190, 100, 139, 225, 38, 26, 227, 37, 128, 31, 83, 134, 143, 164, 98, 206, 170,
        99, 81, 214, 20, 225, 210, 201, 206, 184, 131, 169, 39, 253, 137, 162, 4, 105, 156, 192,
        164, 179, 220, 95>>,
      digest |-> <<73, 112, 36, 249, 136, 91, 115, 255, 150, 38, 179, 205, 147, 222, 102, 93, 162, 94, 87, 69, 114,
        147, 136, 254, 103, 59, 210, 4, 15, 85, 101, 192, 100, 159, 65, 80, 59, 98, 30, 178, 28,
        224, 162, 42, 132, 247, 118, 121, 143, 3, 15, 14, 237, 92, 154, 13, 56, 109, 198, 152, 22,
        177, 150, 111>>],
    [key |-> "ed25519 seed",
      message |-> <<106, 151, 5, 28, 107, 36, 200, 97, 170, 8, 127, 115, 92, 127, 97, 170, 141, 19, 139, 150, 249,
        229, 211, 220, 176, 66, 233, 182, 92, 46, 31, 74, 103, 26, 173, 84, 25, 185, 197, 245, 145,
        122, 15, 24, 123, 43, 162, 52, 248, 49, 70, 219, 34, 92, 132, 180, 181, 134, 101, 171, 87,
        176, 128, 243>>,
      digest |-> <<182, 249, 163, 151, 34, 230, 199, 55, 65, 44, 61, 68, 232, 187, 124, 22, 95, 101, 185, 181, 170,
        107, 83, 255, 123, 174, 220, 109, 17, 222, 115, 40, 165, 131, 16, 51, 200, 45, 16, 117,
        121, 26, 100, 133, 135, 43, 93, 30, 126, 33, 233, 253, 193, 118, 146, 210, 103, 137, 136,
        90, 168, 116, 229, 23>>],
    [key |-> "ed25519 seed",
      message |-> <<182, 249, 163, 151, 34, 230, 199, 55, 65, 44, 61, 68, 232, 187, 124, 22, 95, 101, 185, 181, 170,
        107, 83, 255, 123, 174, 220, 109, 17, 222, 115, 40, 165, 131, 16, 51, 200, 45, 16, 117,
        121, 26, 100, 133, 135, 43, 93, 30, 126, 33, 233, 253, 193, 118, 146, 210, 103, 137, 136,
        90, 168, 116, 229, 23>>,
      digest |-> <<158, 107, 202, 174, 200, 55, 101, 134, 233, 170, 105, 49, 73, 189, 253, 60, 91, 140, 112, 165,
        245, 41, 151, 124, 125, 166, 101, 196, 227, 89, 125, 140, 78, 181, 67, 24, 135, 148, 218,
        141, 154, 69, 120, 75, 75, 172, 113, 175, 50, 168, 248, 206, 94, 137, 161, 20, 109, 191,
        192, 65, 52, 225, 246, 248>>],
    [key |-> "ed25519 seed",
      message |-> <<90, 253, 47, 190, 190, 165, 76, 39, 64, 59, 154, 145, 133, 203, 176, 141, 188, 44, 95, 94, 56,
        183, 68, 187, 168, 136, 44, 223, 247, 194, 52, 191, 154, 221, 112, 50, 190, 110, 169, 254,
        192, 31, 56, 16, 149, 58, 210, 210, 117, 54, 137, 211, 252, 222, 91, 25, 137, 119, 41, 209,
        41, 160, 6, 250>>,
      digest |-> <<84, 211, 229, 56, 227, 96, 13, 33, 207, 232, 251, 187, 28, 165, 17, 174, 66, 214, 255, 82, 186,
        169, 229, 123, 247, 85, 43, 236, 95, 219, 82, 209, 53, 130, 60, 136, 71, 247, 65, 80, 234,
        219, 127, 83, 91, 120, 7, 55, 179, 52, 106, 206, 152, 32, 8, 227, 115, 41, 228, 23, 50,
        177, 123, 163>>],
    [key |-> "ed25519 seed",
      message |-> <<29, 157, 84, 48, 195, 35, 172, 53, 52, 199, 41, 53, 212, 0, 165, 169, 8, 194, 237, 82, 158, 130,
        177, 156, 168, 161, 65, 152, 35, 232, 16, 7, 126, 250, 23, 49, 118, 133, 203, 31, 53, 147,
        107, 205, 120, 129, 5, 163, 118, 117, 132, 255, 182, 26, 88, 81, 126, 189, 110, 73, 169,
        235, 246, 42>>,
      digest |-> <<185, 171, 83, 227, 118, 64, 36, 146, 76, 211, 106, 75, 169, 210, 212, 130, 55, 51, 82, 227, 195,
        136, 96, 102, 246, 75, 214, 133, 140, 161, 73, 4, 84, 143, 181, 220, 74, 27, 251, 85, 56,
        79, 68, 186, 132, 90, 94, 47, 202, 158, 197, 244, 165, 180, 96, 127, 126, 32, 175, 84, 162,
        133, 5, 139>>],
    [key |-> "ed25519 seed",
      message |-> <<64, 139, 40, 92, 18, 56, 54, 0, 79, 75, 136, 66, 200, 147, 36, 193, 240, 19, 130, 69, 12, 13, 67,
        154, 243, 69, 186, 127, 196, 154, 207, 112, 84, 137, 198, 252, 119, 219, 212, 227, 220, 29,
        216, 204, 107, 201, 240, 67, 219, 138, 218, 30, 36, 60, 74, 14, 175, 178, 144, 211, 153,
        72, 8, 64>>,
      digest |-> <<103, 95, 25, 86, 24, 73, 114, 221, 3, 83, 2, 45, 67, 28, 100, 23, 232, 172, 220, 229, 2, 4, 222,
        35, 79, 216, 223, 147, 35, 209, 82, 246, 83, 29, 98, 61, 46, 3, 203, 47, 245, 43, 71, 72,
        33, 194, 120, 251, 58, 203, 97, 115, 205, 109, 131, 17, 147, 164, 171, 39, 171, 10, 5,
        156>>],
    [key |-> "ed25519 seed",
      message |-> <<103, 95, 25, 86, 24, 73, 114, 221, 3, 83, 2, 45, 67, 28, 100, 23, 232, 172, 220, 229, 2, 4, 222,
        35, 79, 216, 223, 147, 35, 209, 82, 246, 83, 29, 98, 61, 46, 3, 203, 47, 245, 43, 71, 72,
        33, 194, 120, 251, 58, 203, 97, 115, 205, 109, 131, 17, 147, 164, 171, 39, 171, 10, 5,
        156>>,
      digest |-> <<109, 129, 29, 37, 0, 18, 176, 17, 147, 138, 159, 230, 177, 223, 238, 12, 77, 22, 33, 220, 151,
        240, 92, 35, 140, 188, 141, 206, 169, 4, 241, 69, 246, 205, 227, 0, 192, 105, 146, 140, 49,
        52, 166, 106, 129, 158, 55, 137, 235, 118, 162, 52, 226, 141, 176, 61, 239, 209, 39, 206,
        216, 188, 248, 131>>],
    [key |-> "ed25519 seed",
      message |-> <<110, 147, 96, 232, 213, 17, 248, 90, 220, 218, 123, 246, 7, 130, 7, 240, 178, 209, 41, 51, 132,
        89, 83, 188, 118, 96, 65, 203, 113, 172, 59, 246, 68, 255, 173, 213, 124, 170, 194, 68, 6,
        102, 87, 232, 235, 224, 30, 250, 14, 57, 77, 26, 250, 115, 49, 55, 154, 60, 26, 235, 214,
        143, 102, 69>>,
      digest |-> <<205, 96, 195, 26, 216, 172, 251, 90, 205, 156, 148, 230, 54, 104, 250, 5, 4, 125, 224, 36, 190,
        30, 79, 124, 78, 157, 181, 135, 190, 57, 205, 143, 234, 230, 136, 68, 143, 65, 236, 186,
        168, 191, 84, 231, 232, 70, 61, 107, 220, 77, 156, 67, 7, 84, 130, 150, 214, 26, 49, 239,
        88, 241, 44, 153>>],
    [key |-> "ed25519 seed",
      message |-> <<73, 117, 187, 61, 31, 175, 83, 8, 200, 106, 48, 137, 62, 233, 3, 169, 118, 41, 102, 9, 219, 34,
        63, 215, 23, 226, 39, 218, 90, 129, 58, 52, 220, 20, 40, 183, 28, 132, 167, 135, 252, 81,
        243, 185, 249, 220, 40, 233, 69, 159, 72, 192, 139, 217, 87, 142, 157, 27, 23, 15, 45, 126,
        165, 6>>,
      digest |-> <<173, 161, 213, 11, 189, 202, 46, 115, 3, 148, 11, 150, 48, 46, 213, 174, 50, 48, 158, 40, 109,
        104, 248, 151, 18, 84, 147, 8, 203, 163, 72, 87, 93, 176, 149, 103, 68, 16, 61, 144, 84,
        128, 231, 27, 24, 221, 222, 89, 119, 42, 70, 36, 0, 251, 46, 69, 15, 27, 142, 168, 204,
        124, 7, 52>>],
    [key |-> "ed25519 seed",
      message |-> <<39, 127, 232, 105, 28, 150, 93, 138, 71, 67, 157, 31, 247, 113, 217, 186, 214, 3, 87, 91, 142,
        141, 140, 238, 108, 185, 7, 161, 53, 153, 146, 194, 42, 183, 54, 179, 104, 89, 249, 237,
        207, 211, 59, 254, 249, 78, 13, 33, 173, 41, 95, 248, 17, 148, 101, 44, 110, 135, 189, 104,
        40, 155, 53, 34>>,
      digest |-> <<236, 189, 253, 65, 249, 88, 205, 215, 186, 78, 233, 162, 15, 6, 173, 35, 54, 53, 241, 239, 218,
        4, 50, 118, 32, 140, 190, 101, 207, 19, 11, 62, 63, 113, 31, 100, 231, 64, 183, 68, 158,
        76, 190, 33, 98, 173, 59, 152, 231, 49, 123, 93, 50, 41, 212, 152, 16, 136, 174, 114, 185,
        43, 189, 185>>],
    [key |-> "ed25519 seed",
      message |-> <<236, 189, 253, 65, 249, 88, 205, 215, 186, 78, 233, 162, 15, 6, 173, 35, 54, 53, 241, 239, 218,
        4, 50, 118, 32, 140, 190, 101, 207, 19, 11, 62, 63, 113, 31, 100, 231, 64, 183, 68, 158,
        76, 190, 33, 98, 173, 59, 152, 231, 49, 123, 93, 50, 41, 212, 152, 16, 136, 174, 114, 185,
        43, 189, 185>>,
      digest |-> <<49, 171, 34, 80, 217, 10, 169, 216, 238, 228, 250, 91, 227, 120, 12, 90, 204, 5, 151, 154, 52,
        114, 91, 224, 222, 33, 80, 25, 126, 43, 124, 47, 93, 154, 114, 144, 227, 85, 21, 173, 117,
        223, 251, 93, 70, 31, 42, 66, 27, 78, 76, 107, 255, 108, 193, 169, 69, 157, 99, 190, 169,
        102, 174, 165>>],
    [key |-> "ed25519 seed",
      message |-> <<49, 171, 34, 80, 217, 10, 169, 216, 238, 228, 250, 91, 227, 120, 12, 90, 204, 5, 151, 154, 52,
        114, 91, 224, 222, 33, 80, 25, 126, 43, 124, 47, 93, 154, 114, 144, 227, 85, 21, 173, 117,
        223, 251, 93, 70, 31, 42, 66, 27, 78, 76, 107, 255, 108, 193, 169, 69, 157, 99, 190, 169,
        102, 174, 165>>,
      digest |-> <<249, 105, 84, 91, 108, 64, 36, 86, 64, 39, 231, 196, 242, 249, 112, 92, 205, 223, 34, 201, 233,
        108, 54, 161, 15, 23, 230, 114, 112, 154, 201, 186, 172, 67, 77, 34, 13, 150, 67, 55, 153,
        86, 112, 237, 177, 140, 242, 173, 210, 112, 211, 93, 125, 63, 174, 46, 170, 131, 65, 136,
        48, 115, 49, 40>>],
    [key |-> "ed25519 seed",
      message |-> <<249, 105, 84, 91, 108, 64, 36, 86, 64, 39, 231, 196, 242, 249, 112, 92, 205, 223, 34, 201, 233,
        108, 54, 161, 15, 23, 230, 114, 112, 154, 201, 186, 172, 67, 77, 34, 13, 150, 67, 55, 153,
        86, 112, 237, 177, 140, 242, 173, 210, 112, 211, 93, 125, 63, 174, 46, 170, 131, 65, 136,
        48, 115, 49, 40>>,
      digest |-> <<161, 62, 17, 78, 32, 225, 50, 67, 117, 71, 231, 11, 243, 87, 100, 188, 110, 18, 94, 124, 95, 164,
        236, 100, 190, 196, 82, 41, 224, 236, 67, 20, 245, 51, 149, 27, 227, 194, 87, 159, 46, 168,
        219, 92, 111, 107, 56, 3, 91, 68, 223, 241, 137, 185, 222, 100, 235, 233, 214, 241, 3, 78,
        241, 141>>],
    [key |-> "ed25519 seed",
      message |-> <<225, 238, 247, 11, 52, 235, 11, 121, 98, 183, 141, 217, 216, 163, 204, 1, 62, 119, 87, 174, 234,
        141, 157, 252, 94, 37, 84, 95, 134, 192, 231, 242, 161, 201, 154, 91, 234, 204, 153, 62,
        182, 39, 98, 167, 98, 116, 105, 189, 126, 71, 228, 2, 210, 237, 17, 174, 19, 241, 83, 16,
        95, 56, 42, 207>>,
      digest |-> <<229, 25, 111, 237, 125, 134, 240, 62, 133, 224, 30, 70, 131, 229, 194, 100, 186, 4, 134, 143,
        148, 233, 245, 31, 55, 67, 159, 211, 95, 159, 207, 114, 102, 143, 219, 20, 12, 159, 208,
        242, 244, 31, 63, 21, 195, 122, 48, 147, 237, 252, 203, 118, 120, 78, 194, 173, 48, 107,
        230, 110, 38, 21, 74, 185>>],
    [key |-> "ed25519 seed",
      message |-> <<229, 25, 111, 237, 125, 134, 240, 62, 133, 224, 30, 70, 131, 229, 194, 100, 186, 4, 134, 143,
        148, 233, 245, 31, 55, 67, 159, 211, 95, 159, 207, 114, 102, 143, 219, 20, 12, 159, 208,
        242, 244, 31, 63, 21, 195, 122, 48, 147, 237, 252, 203, 118, 120, 78, 194, 173, 48, 107,
        230, 110, 38, 21, 74, 185>>,
      digest |-> <<215, 193, 193, 48, 193, 36, 199, 110, 151, 230, 189, 20, 182, 62, 19, 0, 5, 200, 155, 41, 242,
        67, 153, 244, 72, 77, 204, 248, 56, 107, 168, 188, 66, 51, 220, 137, 25, 142, 104, 17, 66,
        92, 57, 138, 106, 152, 36, 180, 6, 50, 245, 110, 183, 110, 83, 68, 200, 213, 219, 52, 98,
        181, 48, 196>>],
    [key |-> "ed25519 seed",
      message |-> <<215, 193, 193, 48, 193, 36, 199, 110, 151, 230, 189, 20, 182, 62, 19, 0, 5, 200, 155, 41, 242,
        67, 153, 244, 72, 77, 204, 248, 56, 107, 168, 188, 66, 51, 220, 137, 25, 142, 104, 17, 66,
        92, 57, 138, 106, 152, 36, 180, 6, 50, 245, 110, 183, 110, 83, 68, 200, 213, 219, 52, 98,
        181, 48, 196>>,
      digest |-> <<124, 194, 181, 21, 251, 196, 188, 31, 64, 208, 97, 33, 250, 148, 219, 44, 166, 252, 96, 200, 130,
        181, 77, 113, 176, 197, 6, 50, 127, 175, 205, 97, 17, 236, 44, 107, 246, 30, 190, 84, 91,
        225, 50, 90, 239, 192, 195, 247, 233, 134, 40, 225, 232, 222, 197, 255, 234, 0, 100, 135,
        203, 22, 73, 178>>],
    [key |-> "ed25519 seed",
      message |-> <<124, 194, 181, 21, 251, 196, 188, 31, 64, 208, 97, 33, 250, 148, 219, 44, 166, 252, 96, 200, 130,
        181, 77, 113, 176, 197, 6, 50, 127, 175, 205, 97, 17, 236, 44, 107, 246, 30, 190, 84, 91,
        225, 50, 90, 239, 192, 195, 247, 233, 134, 40, 225, 232, 222, 197, 255, 234, 0, 100, 135,
        203, 22, 73, 178>>,
      digest |-> <<37, 78, 14, 136, 129, 196, 230, 228, 198, 215, 136, 218, 52, 150, 49, 72, 155, 193, 215, 159,
        132, 128, 221, 169, 148, 215, 76, 165, 145, 111, 148, 56, 33, 90, 112, 191, 151, 196, 203,
        165, 163, 246, 176, 61, 193, 58, 22, 24, 105, 154, 78, 210, 247, 158, 127, 253, 199, 23,
        93, 156, 224, 36, 2, 165>>],
    [key |-> "ed25519 seed",
      message |-> <<37, 78, 14, 136, 129, 196, 230, 228, 198, 215, 136, 218, 52, 150, 49, 72, 155, 193, 215, 159,
        132, 128, 221, 169, 148, 215, 76, 165, 145, 111, 148, 56, 33, 90, 112, 191, 151, 196, 203,
        165, 163, 246, 176, 61, 193, 58, 22, 24, 105, 154, 78, 210, 247, 158, 127, 253, 199, 23,
        93, 156, 224, 36, 2, 165>>,
      digest |-> <<168, 164, 47, 178, 152, 7, 102, 169, 177, 105, 93, 46, 150, 5, 222, 45, 30, 74, 125, 46, 162,
        202, 188, 148, 31, 201, 56, 75, 214, 218, 5, 193, 254, 37, 226, 7, 113, 1, 132, 211, 84,
        241, 132, 36, 55, 68, 120, 28, 181, 118, 17, 205, 105, 61, 93, 186, 123, 106, 69, 217, 55,
        170, 142, 151>>],
    [key |-> "ed25519 seed",
      message |-> <<189, 168, 84, 70, 198, 132, 19, 112, 112, 144, 165, 32, 34, 237, 210, 106, 28, 148, 98, 41, 80,
        41, 242, 230, 12, 215, 196, 242, 187, 211, 9, 113, 112, 175, 122, 77, 115, 36, 92, 175,
        169, 195, 204, 168, 213, 97, 167, 195, 222, 111, 93, 74, 16, 190, 142, 210, 165, 230, 8,
        214, 143, 146, 252, 200>>,
      digest |-> <<63, 224, 186, 167, 147, 109, 107, 38, 181, 34, 17, 199, 97, 242, 252, 204, 201, 182, 63, 195,
        143, 197, 91, 105, 9, 13, 83, 143, 39, 238, 201, 220, 178, 156, 51, 158, 250, 180, 171, 73,
        62, 83, 232, 116, 10, 6, 68, 238, 62, 66, 122, 68, 243, 59, 245, 159, 160, 52, 212, 160, 1,
        92, 85, 68>>],
    [key |-> "ed25519 seed",
      message |-> <<134, 120, 237, 123, 39, 97, 59, 109, 37, 25, 239, 70, 245, 49, 54, 22, 21, 45, 90, 204, 0, 248,
        36, 157, 136, 176, 136, 22, 156, 11, 229, 73, 154, 250, 236, 240, 56, 1, 78, 79, 73, 107,
        54, 2, 207, 70, 86, 167, 82, 168, 64, 186, 154, 58, 149, 126, 99, 65, 200, 47, 166, 102,
        53, 14>>,
      digest |-> <<245, 74, 202, 211, 90, 242, 87, 88, 38, 60, 53, 82, 237, 75, 174, 134, 238, 93, 76, 147, 182,
        155, 141, 29, 8, 59, 26, 55, 69, 242, 192, 72, 33, 214, 134, 52, 228, 50, 26, 232, 245,
        140, 223, 123, 25, 4, 121, 140, 67, 67, 145, 126, 37, 160, 199, 155, 221, 243, 101, 187,
        10, 30, 104, 147>>],
    [key |-> "ed25519 seed",
      message |-> <<3, 88, 149, 242, 244, 129, 177, 176, 240, 31, 207, 140, 40, 156, 121, 70, 96, 178, 137, 152, 26,
        120, 248, 16, 100, 71, 112, 127, 221, 150, 102, 202, 6, 218, 90, 154, 86, 81, 129, 89, 155,
        121, 245, 59, 132, 77, 138, 113, 221, 159, 67, 156, 82, 163, 215, 179, 232, 167, 156, 144,
        106, 200, 69, 250>>,
      digest |-> <<82, 113, 216, 205, 88, 204, 233, 160, 43, 23, 172, 58, 157, 137, 59, 172, 24, 1, 82, 223, 203,
        16, 62, 231, 177, 84, 249, 55, 120, 61, 166, 197, 189, 94, 81, 255, 130, 227, 214, 135, 17,
        254, 79, 120, 68, 154, 200, 129, 211, 56, 238, 134, 202, 196, 172, 121, 80, 169, 177, 137,
        96, 34, 19, 136>>],
    [key |-> "ed25519 seed",
      message |-> <<237, 151, 225, 247, 45, 37, 40, 77, 53, 51, 123, 168, 234, 105, 112, 76, 135, 71, 113, 223, 35,
        74, 184, 50, 122, 12, 162, 127, 187, 148, 86, 183, 40, 150, 145, 228, 204, 64, 82, 219,
        102, 72, 40, 133, 12, 17, 252, 153, 20, 197, 42, 246, 120, 13, 71, 231, 14, 57, 90, 138,
        217, 78, 3, 164>>,
      digest |-> <<107, 70, 35, 40, 205, 65, 218, 34, 142, 59, 144, 64, 93, 238, 38, 3, 160, 93, 155, 130, 141, 46,
        21, 156, 119, 30, 150, 20, 42, 25, 129, 51, 56, 92, 249, 56, 52, 38, 65, 84, 203, 82, 162,
        8, 215, 162, 130, 109, 169, 154, 60, 252, 212, 130, 18, 198, 90, 250, 84, 157, 188, 85, 16,
        170>>],
    [key |-> "ed25519 seed",
      message |-> <<107, 70, 35, 40, 205, 65, 218, 34, 142, 59, 144, 64, 93, 238, 38, 3, 160, 93, 155, 130, 141, 46,
        21, 156, 119, 30, 150, 20, 42, 25, 129, 51, 56, 92, 249, 56, 52, 38, 65, 84, 203, 82, 162,
        8, 215, 162, 130, 109, 169, 154, 60, 252, 212, 130, 18, 198, 90, 250, 84, 157, 188, 85, 16,
        170>>,
      digest |-> <<0, 138, 91, 45, 4, 72, 30, 3, 219, 75, 232, 98, 35, 150, 188, 98, 38, 202, 37, 247, 189, 193, 18,
        224, 115, 154, 161, 139, 28, 164, 12, 106, 18, 194, 248, 175, 133, 134, 104, 167, 31, 135,
        120, 29, 171, 194, 46, 168, 87, 156, 58, 24, 38, 51, 206, 216, 222, 153, 220, 25, 47, 167,
        161, 123>>],
    [key |-> "ed25519 seed",
      message |-> <<0, 138, 91, 45, 4, 72, 30, 3, 219, 75, 232, 98, 35, 150, 188, 98, 38, 202, 37, 247, 189, 193, 18,
        224, 115, 154, 161, 139, 28, 164, 12, 106, 18, 194, 248, 175, 133, 134, 104, 167, 31, 135,
        120, 29, 171, 194, 46, 168, 87, 156, 58, 24, 38, 51, 206, 216, 222, 153, 220, 25, 47, 167,
        161, 123>>,
      digest |-> <<178, 167, 18, 81, 29, 161, 20, 205, 86, 222, 42, 254, 33, 47, 71, 202, 182, 41, 213, 66, 58, 109,
        25, 15, 242, 214, 203, 43, 178, 198, 231, 212, 37, 227, 234, 38, 137, 93, 109, 35, 157,
        160, 49, 80, 154, 6, 211, 60, 205, 99, 21, 63, 131, 40, 202, 232, 140, 37, 183, 169, 153,
        8, 181, 118>>],
    [key |-> "ed25519 seed",
      message |-> <<116, 101, 115, 116, 32, 109, 101, 115, 115, 97, 103, 101>>,
      digest |-> <<38, 108, 175, 255, 64, 64, 130, 95, 236, 49, 19, 27, 10, 126, 94, 236, 136, 48, 18, 213, 30, 60,
        217, 44, 246, 231, 145, 142, 13, 112, 74, 151, 125, 208, 125, 73, 122, 7, 102, 182, 79,
        115, 68, 90, 42, 206, 136, 55, 105, 121, 77, 250, 9, 174, 64, 35, 48, 9, 193, 209, 203, 11,
        78, 34>>],
    [key |-> "ed25519 seed",
      message |-> <<97>>,
      digest |-> <<190, 223, 161, 11, 31, 248, 43, 117, 174, 119, 191, 37, 65, 39, 105, 14, 212, 109, 91, 2, 159,
        122, 43, 200, 17, 180, 147, 188, 102, 176, 86, 41, 155, 196, 241, 111, 110, 131, 58, 249,
        230, 82, 180, 120, 153, 119, 139, 136, 162, 46, 218, 214, 223, 150, 53, 116, 123, 146, 221,
        43, 179, 142, 196, 71>>],
    [key |-> "ed25519 seed",
      message |-> <<190, 223, 161, 11, 31, 248, 43, 117, 174, 119, 191, 37, 65, 39, 105, 14, 212, 109, 91, 2, 159,
        122, 43, 200, 17, 180, 147, 188, 102, 176, 86, 41, 155, 196, 241, 111, 110, 131, 58, 249,
        230, 82, 180, 120, 153, 119, 139, 136, 162, 46, 218, 214, 223, 150, 53, 116, 123, 146, 221,
        43, 179, 142, 196, 71>>,
      digest |-> <<195, 141, 169, 134, 174, 241, 76, 57, 155, 125, 119, 237, 127, 24, 121, 220, 167, 4, 49, 215,
        155, 218, 191, 185, 206, 145, 248, 93, 67, 97, 168, 123, 254, 101, 28, 251, 70, 252, 124,
        57, 37, 13, 37, 91, 25, 134, 154, 222, 240, 87, 174, 1, 20, 151, 82, 29, 42, 20, 207, 56,
        145, 68, 254, 67>>],
    [key |-> "ed25519 seed",
      message |-> <<195, 141, 169, 134, 174, 241, 76, 57, 155, 125, 119, 237, 127, 24, 121, 220, 167, 4, 49, 215,
        155, 218, 191, 185, 206, 145, 248, 93, 67, 97, 168, 123, 254, 101, 28, 251, 70, 252, 124,
        57, 37, 13, 37, 91, 25, 134, 154, 222, 240, 87, 174, 1, 20, 151, 82, 29, 42, 20, 207, 56,
        145, 68, 254, 67>>,
      digest |-> <<138, 171, 47, 226, 173, 187, 202, 114, 15, 117, 107, 71, 74, 61, 197, 135, 67, 74, 209, 15, 40,
        32, 11, 191, 3, 122, 122, 69, 63, 12, 225, 215, 79, 89, 196, 8, 205, 230, 148, 112, 36, 81,
        214, 126, 69, 148, 241, 26, 111, 192, 78, 193, 54, 54, 99, 174, 188, 20, 18, 91, 228, 190,
        171, 122>>],
    [key |-> "ed25519 seed",
      message |-> <<>>,
      digest |-> <<90, 242, 199, 15, 250, 9, 16, 96, 90, 38, 230, 81, 252, 4, 29, 231, 200, 197, 160, 150, 251, 180,
        189, 175, 242, 197, 151, 246, 146, 226, 193, 69, 51, 217, 61, 190, 94, 114, 13, 57, 158,
        100, 34, 34, 73, 117, 121, 22, 77, 61, 191, 140, 63, 40, 226, 20, 126, 207, 249, 106, 250,
        211, 93, 50>>],
    [key |-> "ed25519 seed",
      message |-> Filled(1000, 97),
      digest |-> <<184, 16, 42, 129, 9, 104, 49, 236, 34, 174, 0, 39, 75, 24, 34, 141, 197, 187, 72, 201, 220, 141,
        54, 185, 138, 117, 105, 209, 237, 215, 177, 240, 76, 23, 251, 208, 243, 72, 29, 151, 250,
        96, 143, 200, 7, 176, 203, 233, 122, 208, 21, 111, 207, 201, 161, 41, 147, 237, 97, 172,
        123, 239, 99, 145>>],
    [key |-> "ed25519 seed",
      message |-> <<184, 16, 42, 129, 9, 104, 49, 236, 34, 174, 0, 39, 75, 24, 34, 141, 197, 187, 72, 201, 220, 141,
        54, 185, 138, 117, 105, 209, 237, 215, 177, 240, 76, 23, 251, 208, 243, 72, 29, 151, 250,
        96, 143, 200, 7, 176, 203, 233, 122, 208, 21, 111, 207, 201, 161, 41, 147, 237, 97, 172,
        123, 239, 99, 145>>,
      digest |-> <<236, 249, 47, 132, 101, 37, 231, 219, 124, 5, 131, 121, 124, 33, 35, 83, 150, 253, 127, 115, 122,
        55, 35, 88, 178, 8, 87, 129, 21, 218, 130, 134, 204, 190, 146, 114, 226, 189, 112, 83, 231,
        186, 190, 172, 106, 218, 158, 109, 116, 11, 31, 40, 64, 40, 215, 84, 30, 186, 188, 52, 212,
        251, 20, 54>>] }

\* pbkdf2Sync of the canonical test mnemonic with the empty passphrase
TEST_MASTER_SEED ==
  <<94, 176, 11, 189, 220, 240, 105, 8, 72, 137, 168, 171, 145, 85, 86, 129, 101, 245, 196, 83, 204,
    184, 94, 112, 129, 26, 174, 214, 246, 218, 95, 193, 154, 90, 196, 11, 56, 156, 211, 112, 208,
    134, 32, 109, 236, 138, 166, 196, 61, 174, 166, 105, 15, 32, 173, 61, 141, 72, 178, 210, 206,
    158, 56, 228>>

TEST_MESSAGE == <<116, 101, 115, 116, 32, 109, 101, 115, 115, 97, 103, 101>>

\* Buffer.from("a".repeat(1000))
MESSAGE_A_LONG == Filled(1000, 97)

(***************************************************************************)
(* The collaborators, looked up in the tables.  An input outside the       *)
(* samples yields the all-zero digest; Spec never asks for one.            *)
(***************************************************************************)
OffSample(n) == [k \in 1..n |-> 0]

\* bip39.entropyToMnemonic(seed)
\* Buffer.from(str, "hex"), which entropyToMnemonic applies to a string: the
\* bytes of the leading pairs of digits, up to the first pair that is none
HexByteLength(str) ==
  LET bad == {k \in 1..(Len(str) \div 2) :
                ~(IsHexDigit(CharAt(str, 2 * k - 1)) /\ IsHexDigit(CharAt(str, 2 * k)))}
  IN  IF bad = {} THEN Len(str) \div 2
      ELSE (CHOOSE k \in bad : \A j \in bad : k <= j) - 1

BufferFromHex(str) ==
  [k \in 1..HexByteLength(str) |->
     16 * HexDigitValue(CharAt(str, 2 * k - 1)) + HexDigitValue(CharAt(str, 2 * k))]

\* a length test that lets every entropy through
EntropyIsValidAlways(length) == TRUE

\* the lengths of an entropy that entropyToMnemonic does not throw "Invalid
\* entropy" for: 16 to 32 bytes, a multiple of 4
EntropyIsValid(length) ==
  /\ length >= 16
  /\ length <= 32
  /\ length % 4 = 0

InvalidEntropyError == "Invalid entropy"

\* entropyToMnemonic(seed) throws
entropyToMnemonicThrows(seed) == ~EntropyIsValid(HexByteLength(seed))

\* the sentence entropyToMnemonic(seed) returns when it does not throw
entropyToMnemonic(seed) ==
  LET hit == {e \in ENTROPY_MNEMONIC_SAMPLES :
                /\ HexByteLength(e.entropy) = HexByteLength(seed)
                /\ BufferFromHex(e.entropy) = BufferFromHex(seed)}
  IN  IF hit = {} THEN "" ELSE (CHOOSE e \in hit : TRUE).mnemonic

(***************************************************************************)
(* The seeds generateLedgerMasterKey is called with.                       *)
(***************************************************************************)
TEST_ENTROPY == "00000000000000000000000000000000"
WRAP_ENTROPY == "0000000000000000000000000000007f"
ART_ENTROPY == "0000000000000000000000000000000000000000000000000000000000000000"

RECURSIVE Repeat(_, _)
\* str.repeat(n)
Repeat(str, n) == IF n = 0 THEN "" ELSE str \o Repeat(str, n - 1)

\* the entropy of n zero bytes, in hex
ZeroEntropy(n) == Repeat("00", n)

\* (seed, password) pairs generateLedgerMasterKey is called with: entropies of
\* 16 and 32 bytes, and one of 15 bytes
GenerateInputs ==
  { <<TEST_ENTROPY, "">>, <<TEST_ENTROPY, "TREZOR">>, <<TEST_ENTROPY, "b">>,
    <<WRAP_ENTROPY, "">>, <<WRAP_ENTROPY, "TREZOR">>, <<ART_ENTROPY, "">>,
    <<ZeroEntropy(15), "">> }

\* seeds of every length generateLedgerMasterKey is called with, and seeds that
\* are no strings of whole bytes in hex
EntropyInputs ==
  {ZeroEntropy(n) : n \in 0..MaxEntropyBytes}
    \cup {TEST_ENTROPY \o "0", TEST_ENTROPY \o "zz", "zz" \o TEST_ENTROPY, "xyzzy"}

\* entropyToMnemonic at every seed of the model: whether it throws, and the
\* sentence it returns
entropyToMnemonicAt ==
  [seed \in EntropyInputs \cup {input[1] : input \in GenerateInputs} |->
     [throws |-> entropyToMnemonicThrows(seed), mnemonic |-> entropyToMnemonic(seed)]]

\* a verifier that splits the sentence at any run of white space before it
\* looks the words up
bip39_validateMnemonicRespaced(mnemonic) ==
  \E e \in ENTROPY_MNEMONIC_SAMPLES :
     /\ NumberOfWords(mnemonic) = NumberOfWords(e.mnemonic)
     /\ \A n \in 1..NumberOfWords(mnemonic) : Word(mnemonic, n) = Word(e.mnemonic, n)

\* bip39.validateMnemonic(mnemonic): the sentence is split at single spaces and
\* its words and checksum are looked up, so it is a sampled valid one
bip39_validateMnemonic(mnemonic) ==
  \E e \in ENTROPY_MNEMONIC_SAMPLES : e.mnemonic = mnemonic

\* crypto.pbkdf2Sync(password, salt, iterations, keylen, digest)
pbkdf2Sync(password, salt, iterations, keylen, digest) ==
  LET hit == {e \in PBKDF2_SAMPLES :
                /\ e.password = password /\ e.salt = salt
                /\ e.iterations = iterations /\ e.keylen = keylen /\ e.digest = digest}
  IN  IF hit = {} THEN OffSample(keylen) ELSE (CHOOSE e \in hit : TRUE).derived

\* crypto.createHmac("sha256", key).update(message).digest()
HmacSha256(key, msg) ==
  LET hit == {e \in HMAC_SHA256_SAMPLES : e.key = key /\ e.message = msg}
  IN  IF hit = {} THEN OffSample(32) ELSE (CHOOSE e \in hit : TRUE).digest

\* crypto.createHmac("sha512", key).update(message).digest()
HmacSha512(key, msg) ==
  LET hit == {e \in HMAC_SHA512_SAMPLES : e.key = key /\ e.message = msg}
  IN  IF hit = {} THEN OffSample(64) ELSE (CHOOSE e \in hit : TRUE).digest

(***************************************************************************)
(* toHexString (index.js 24-25).                                           *)
(***************************************************************************)
HexDigits == <<"0", "1", "2", "3", "4", "5", "6", "7", "8", "9", "a", "b", "c", "d", "e", "f">>

\* a toString(16) that writes capital letters
toString16Upper(byte) ==
  LET digits == <<"0", "1", "2", "3", "4", "5", "6", "7", "8", "9", "A", "B", "C", "D", "E", "F">>
  IN  IF byte < 16 THEN digits[byte + 1]
      ELSE digits[(byte \div 16) + 1] \o digits[(byte % 16) + 1]

\* byte.toString(16)
toString16(byte) ==
  IF byte < 16 THEN HexDigits[byte + 1]
  ELSE HexDigits[(byte \div 16) + 1] \o HexDigits[(byte % 16) + 1]

\* a padStart that pads nothing
padStartNone(str) == str

\* str.padStart(2, "0")
padStart2(str) == IF Len(str) < 2 THEN "0" \o str ELSE str

RECURSIVE reduceHex(_, _, _)
\* bytes.reduce((str, byte) => str + ..., "") over the elements from..to: the
\* digits of each element in the order of the elements.  The concatenation is
\* grouped by halves, which yields the string the left-to-right fold yields
\* and keeps the evaluation of 256 elements shallow.
reduceHex(bytes, from, to) ==
  IF from > to THEN ""
  ELSE IF from = to THEN padStart2(toString16(bytes[from]))
  ELSE reduceHex(bytes, from, (from + to) \div 2)
         \o reduceHex(bytes, (from + to) \div 2 + 1, to)

toHexString(bytes) == reduceHex(bytes, 1, Len(bytes))

(***************************************************************************)
(* toByteArray (index.js 11-17).                                           *)
(***************************************************************************)
\* a JavaScript number that is an integer, and NaN
Num(n) == [nan |-> FALSE, n |-> n]
NaN == [nan |-> TRUE, n |-> 0]

\* parseInt(str, 16) for a str of at most two characters: leading white space
\* is skipped, then a sign and the prefix 0x are read, then the longest run of
\* digits; NaN when there is no digit
parseInt16(str) ==
  LET c1 == CharAt(str, 1)
      c2 == CharAt(str, 2)
  IN  IF Len(str) = 0 THEN NaN
      ELSE IF Len(str) = 1 THEN (IF IsHexDigit(c1) THEN Num(HexDigitValue(c1)) ELSE NaN)
      ELSE IF IsWhiteSpace(c1) \/ c1 = "+"
             THEN (IF IsHexDigit(c2) THEN Num(HexDigitValue(c2)) ELSE NaN)
      ELSE IF c1 = "-" THEN (IF IsHexDigit(c2) THEN Num(0 - HexDigitValue(c2)) ELSE NaN)
      ELSE IF c1 = "0" /\ c2 \in {"x", "X"} THEN NaN
      ELSE IF ~IsHexDigit(c1) THEN NaN
      ELSE IF IsHexDigit(c2) THEN Num(16 * HexDigitValue(c1) + HexDigitValue(c2))
      ELSE Num(HexDigitValue(c1))

\* a substring that takes one character
substring1(hexString, i) == SubSeq(hexString, i + 1, i + 1)

\* hexString.substring(i, i + 2), i counted from 0
substring2(hexString, i) ==
  SubSeq(hexString, i + 1, IF i + 2 <= Len(hexString) THEN i + 2 ELSE Len(hexString))

\* new Uint8Array(hexString.length / 2) has the whole part of the quotient as
\* its length; element i / 2 is stored for i = 0, 2, 4, ..., and a store past
\* the end (the last character of a string of odd length) is dropped; a
\* store to a Uint8Array keeps the number modulo 256, and 0 for NaN
toByteArray(hexString) ==
  [k \in 1..(Len(hexString) \div 2) |->
     LET number == parseInt16(substring2(hexString, 2 * (k - 1)))
     IN  IF number.nan THEN 0 ELSE number.n % 256]

(***************************************************************************)
(* validateMnemonic (index.js 33-53).  A JavaScript value is a record      *)
(* [t |-> its typeof/kind, v |-> its text].                                *)
(***************************************************************************)
JsString(s) == [t |-> "string", v |-> s]
JsNull == [t |-> "null", v |-> ""]
JsUndefined == [t |-> "undefined", v |-> ""]
JsNumber(text) == [t |-> "number", v |-> text]
JsBoolean(text) == [t |-> "boolean", v |-> text]
\* an object or an array: typeof is "object", and it is truthy
JsObject(text) == [t |-> "object", v |-> text]

\* !x is false
Truthy(x) ==
  CASE x.t = "string" -> x.v # ""
    [] x.t = "number" -> x.v \notin {"0", "NaN"}
    [] x.t = "boolean" -> x.v = "true"
    [] x.t = "object" -> TRUE
    [] OTHER -> FALSE

\* the positions of s that hold no white space
InkPositions(s) == {k \in 1..Len(s) : ~IsWhiteSpace(CharAt(s, k))}

Min(S) == CHOOSE k \in S : \A j \in S : k <= j

\* a trim that drops the leading white space only
trimStart(s) ==
  IF InkPositions(s) = {} THEN ""
  ELSE SubSeq(s, Min(InkPositions(s)), Len(s))

\* String.prototype.trim: the white space before the first and after the last
\* other character is dropped
trim(s) ==
  IF InkPositions(s) = {} THEN ""
  ELSE SubSeq(s, Min(InkPositions(s)),
              CHOOSE k \in InkPositions(s) : \A j \in InkPositions(s) : k >= j)

\* s.split(/\s+/).length: one piece more than there are separators (a run at
\* either end leaves an empty piece there, and "" splits into [""])
splitLength(s) ==
  Cardinality({k \in 1..Len(s) :
                 IsWhiteSpace(CharAt(s, k)) /\ (k = 1 \/ ~IsWhiteSpace(CharAt(s, k - 1)))}) + 1

validCounts == {12, 15, 18, 21, 24}

NonEmptyStringError == "Mnemonic must be a non-empty string"

WordCountError(wordCount) ==
  "Invalid word count: " \o ToString(wordCount) \o ". Must be 12, 15, 18, 21, or 24 words."

ChecksumError == "Invalid mnemonic checksum or word list"

\* a type test that stops only the falsy values
IsRejectedFalsy(mnemonic) == ~Truthy(mnemonic)

\* !mnemonic || typeof mnemonic !== "string"
IsRejected(mnemonic) == ~Truthy(mnemonic) \/ mnemonic.t # "string"

\* how a call of validateMnemonic ends: thrown or returned, with what, and what
\* bip39.validateMnemonic was called with on the way
Throw(msg) == [threw |-> TRUE, value |-> msg, verified |-> <<>>]
Return(value) == [threw |-> FALSE, value |-> value, verified |-> <<>>]
Verified(end, trimmed) == [end EXCEPT !.verified = <<trimmed>>]

\* a validateMnemonic that has the words verified before it counts them
validateMnemonicVerifyFirst(mnemonic) ==
  IF IsRejected(mnemonic) THEN Throw(NonEmptyStringError)
  ELSE LET trimmed == trim(mnemonic.v)
           wordCount == splitLength(trimmed)
       IN  IF ~bip39_validateMnemonic(trimmed) THEN Verified(Throw(ChecksumError), trimmed)
           ELSE IF wordCount \notin validCounts
                  THEN Verified(Throw(WordCountError(wordCount)), trimmed)
           ELSE Verified(Return(trimmed), trimmed)

validateMnemonic(mnemonic) ==
  IF IsRejected(mnemonic) THEN Throw(NonEmptyStringError)
  ELSE LET trimmed == trim(mnemonic.v)
           wordCount == splitLength(trimmed)
       IN  IF wordCount \notin validCounts THEN Throw(WordCountError(wordCount))
           ELSE IF ~bip39_validateMnemonic(trimmed) THEN Verified(Throw(ChecksumError), trimmed)
           ELSE Verified(Return(trimmed), trimmed)

(***************************************************************************)
(* tweakBits (index.js 115-124): three in-place byte updates.              *)
(***************************************************************************)
\* a tweakBits that masks byte 31 and never sets its bit 6
tweakBitsNoSet(data) ==
  LET d1 == StoreByte(data, 0, BitAnd(LoadByte(data, 0), 248))
  IN  StoreByte(d1, 31, BitAnd(LoadByte(d1, 31), 63))

\* a tweakBits that sets bit 5 of byte 31 along with bit 6
tweakBitsSetBit5(data) ==
  LET d1 == StoreByte(data, 0, BitAnd(LoadByte(data, 0), 248))
      d2 == StoreByte(d1, 31, BitAnd(LoadByte(d1, 31), 127))
      d3 == StoreByte(d2, 31, BitOr(LoadByte(d2, 31), 96))
  IN  d3

\* a tweakBits that clears the lowest 2 bits of byte 0 only
tweakBitsLow2(data) ==
  LET d1 == StoreByte(data, 0, BitAnd(LoadByte(data, 0), 252))
      d2 == StoreByte(d1, 31, BitAnd(LoadByte(d1, 31), 127))
      d3 == StoreByte(d2, 31, BitOr(LoadByte(d2, 31), 64))
  IN  d3

\* a tweakBits that updates byte 63 where the code updates byte 31
tweakBitsByte63(data) ==
  LET d1 == StoreByte(data, 0, BitAnd(LoadByte(data, 0), 248))
      d2 == StoreByte(d1, 63, BitAnd(LoadByte(d1, 63), 127))
      d3 == StoreByte(d2, 63, BitOr(LoadByte(d2, 63), 64))
  IN  d3

tweakBits(data) ==
  LET d1 == StoreByte(data, 0, BitAnd(LoadByte(data, 0), 248))
      d2 == StoreByte(d1, 31, BitAnd(LoadByte(d1, 31), 127))
      d3 == StoreByte(d2, 31, BitOr(LoadByte(d2, 31), 64))
  IN  d3

\* a tweakBits that leaves the buffer it is given alone and returns a new
\* buffer with the tweaked bytes
tweakBits_copy(buffers, data) ==
  [buffers |-> Append(buffers, tweakBits(buffers[data])), returned |-> Len(buffers) + 1]

\* the call tweakBits(data) on the buffers of the program, data being a
\* reference to one of them: the three updates are stores into that buffer,
\* and return data (line 123) returns the reference
tweakBits_call(buffers, data) ==
  [buffers |-> [buffers EXCEPT ![data] = tweakBits(buffers[data])], returned |-> data]

(***************************************************************************)
(* hashRepeatedly (index.js 97-108).                                       *)
(***************************************************************************)
HashKey == "ed25519 seed"

\* an acceptance test of the last byte of the digest
RejectedByte63(i) == BitAnd(LoadByte(i, 63), 32) # 0

\* an acceptance test that lets every digest through
RejectedNever(i) == FALSE

\* if (i[31] & 0b0010_0000): the digest is rejected
Rejected(i) == BitAnd(LoadByte(i, 31), 32) # 0

\* a recursion on the rejected digest after its bits have been tweaked
NextMessageTweaked(msg, i) == tweakBits(i)

\* a recursion on the message it was given
NextMessageSame(msg, i) == msg

\* return hashRepeatedly(i): the rejected digest is the next message
NextMessage(msg, i) == i

(***************************************************************************)
(* generateLedgerMasterKey (index.js 64-90).                               *)
(***************************************************************************)
\* the entropy itself as the password
PbkdfPasswordRaw(seed) == seed

\* the password argument of pbkdf2Sync
PbkdfPassword(seed) == entropyToMnemonicAt[seed].mnemonic

\* a salt that leaves the passphrase out
PbkdfSaltFixed(password) == "mnemonic"

\* the salt argument of pbkdf2Sync
PbkdfSalt(password) == "mnemonic" \o password

PbkdfIterations == 2048
PbkdfKeylen == 64

\* the character "1" (0x31) in front, as in Adrestia's pseudo code
ChainCodeMessageAdrestia(masterSeed) == <<49>> \o masterSeed

\* new Uint8Array([1, ...masterSeed])
ChainCodeMessage(masterSeed) == <<1>> \o masterSeed

\* a message kept from the call before, as a module-level variable would be
HashSeedStale(masterSeed) == IF message # <<>> THEN message ELSE masterSeed

\* the argument of the hashRepeatedly call
HashSeed(masterSeed) == masterSeed

\* the chain code first
MasterKeySwapped(tweaked, cc) == cc \o tweaked

\* new Uint8Array([...tweaked, ...cc])
MasterKey(tweaked, cc) == tweaked \o cc

(***************************************************************************)
(* The inputs the calls are made with.                                     *)
(***************************************************************************)
TEST_MNEMONIC == entropyToMnemonic(TEST_ENTROPY)

\* messages a user calls hashRepeatedly with
HashInputs == {<<>>, <<97>>, TEST_MESSAGE, TEST_MASTER_SEED, MESSAGE_A_LONG}

\* buffers a user calls tweakBits with: digests of the tables, and the filled
\* buffers of the unit tests
\* the 32-byte buffers of the unit tests of tweakBits: 0xff in byte 0, in
\* byte 31, and in both
TEST_FIRST_FF == [k \in 1..32 |-> IF k = 1 THEN 255 ELSE 0]
TEST_LAST_FF == [k \in 1..32 |-> IF k = 32 THEN 255 ELSE 0]
TEST_BOTH_FF == [k \in 1..32 |-> IF k \in {1, 32} THEN 255 ELSE 0]

TweakInputs ==
  {HmacSha512(HashKey, msg) : msg \in HashInputs}
    \cup {Filled(64, 255), Filled(64, 0), Filled(32, 255), Filled(32, 0), Filled(8, 255)}
    \cup {TEST_FIRST_FF, TEST_LAST_FF, TEST_BOTH_FF}

RECURSIVE Words(_, _, _)
\* n words separated by sep: n - 1 times "abandon", then last
Words(n, last, sep) ==
  IF n = 0 THEN "" ELSE IF n = 1 THEN last ELSE "abandon" \o sep \o Words(n - 1, last, sep)

\* m with the space after one of its words doubled
DoubledSpaces(m) ==
  {SubSeq(m, 1, k) \o " " \o SubSeq(m, k + 1, Len(m)) :
     k \in {j \in 1..Len(m) : CharAt(m, j) = " "}}

\* TEST_MNEMONIC.replace(/ /g, "  ")
DoubledTestMnemonic == Words(12, "about", "  ")

\* white space put before and after a mnemonic
Paddings == {<<"", "">>, <<"  ", "  \n">>, <<"\t", "">>, <<"", "\r\n">>}

\* values validateMnemonic is called with
ValidateInputs ==
  {JsString(Words(n, "abandon", " ")) : n \in 0..MaxWords}
    \cup {JsString(p[1] \o e.mnemonic \o p[2]) : e \in ENTROPY_MNEMONIC_SAMPLES, p \in Paddings}
    \cup {JsString(s) : s \in DoubledSpaces(TEST_MNEMONIC)}
    \cup {JsString(DoubledTestMnemonic), JsString(Words(24, "art", "  "))}
    \cup {JsString(Words(11, "xyzzy", " ")), JsString(Words(16, "xyzzy", " ")),
          JsString("xyzzy"), JsString(Words(15, "about", " "))}
    \cup {JsString(e.mnemonic) : e \in ENTROPY_MNEMONIC_SAMPLES}
    \cup {JsString("  " \o s \o " \n") :
            s \in {"", "abandon", Words(11, "abandon", " "), TEST_MNEMONIC}}
    \cup {JsString("invalid mnemonic words here"), JsString("--test")}
    \cup {JsString(" "), JsString("\t"),
          JsString(Words(12, "about", "  ")), JsString(Words(12, "about", "\t")),
          JsString(Words(13, "about", " ")), JsString(Words(12, "xyzzy", " ")),
          JsNull, JsUndefined, JsNumber("12"), JsNumber("0"), JsNumber("123"),
          JsBoolean("true"), JsBoolean("false"),
          JsObject("[\"abandon\"]"), JsObject("{}")}

\* new Uint8Array(256) filled with allBytes[i] = i
AllByteValues == 256

\* byte arrays toHexString is called with
ByteInputs ==
  {<<>>, [k \in 1..AllByteValues |-> k - 1], <<222, 173, 190, 239>>, <<1, 2, 10, 15>>,
   <<202, 254, 186, 190>>}
    \cup {<<b>> : b \in 0..255}
    \cup {<<a, b>> : a, b \in {0, 10, 16, 255}}
    \cup {Filled(96, 170)}

\* the characters of the strings toByteArray is called with
HexChars ==
  {"0", "1", "2", "3", "4", "5", "6", "7", "8", "9", "a", "b", "c", "d", "e", "f",
   "A", "B", "C", "D", "E", "F"}
OtherChars == {"g", "x", "X", " ", "-", "+"}

\* strings toByteArray is called with: strings of one and two characters, and
\* the strings of the unit tests
HexInputs ==
  {"", "deadbeef", "DEADBEEF", "DeadBeef", "abc123", "ABC123", "0123456789abcdef",
   "0123456789ABCDEF", "abc", "0x1f", "zz00"}
    \cup {c : c \in HexChars \cup OtherChars}
    \cup {c \o d : c \in HexChars, d \in {"0", "9", "a", "f", "A", "F"}}
    \cup {c \o d : c \in OtherChars, d \in {"1", "b", "x"}}
    \cup {c \o d : c \in {"1", "b"}, d \in OtherChars}

(***************************************************************************)
(* The state machine: calls of the exported functions by a user of the     *)
(* module.  The module is synchronous: a call runs to its return before    *)
(* the next one starts; hashRepeatedly takes one step per frame.           *)
(***************************************************************************)
NoFrame ==
  [seed |-> "", password |-> "",
   pbkdf2 |-> [password |-> "", salt |-> "", iterations |-> 0, keylen |-> 0, digest |-> ""],
   masterSeed |-> <<>>, ccMessage |-> <<>>, cc |-> <<>>]

\* a completed call: the function, its argument (input: the JavaScript value
\* validateMnemonic was given; data: the buffer tweakBits or hashRepeatedly was
\* given), whether it threw, and what it returned or threw (text: a string;
\* bytes: a buffer)
Returned(fn, input, data, threw, text, bytes) ==
  [fn |-> fn, input |-> input, data |-> data, threw |-> threw, text |-> text, bytes |-> bytes]

NoReturn == Returned("none", JsUndefined, <<>>, FALSE, "", <<>>)

\* the buffers of a call: buffers[r] is the content of the buffer with
\* reference r; argument is the reference the call was given, returned the
\* reference it returned (0: none)
Heap(buffers, argument, returned) ==
  [buffers |-> buffers, argument |-> argument, returned |-> returned]

NoHeap == Heap(<<>>, 0, 0)

\* process.env before a run sets anything
NoEnv == [MNEMONIC |-> JsUndefined, PASSPHRASE |-> JsUndefined, DEBUG |-> JsUndefined]

\* the result object of parseArgs before the loop (lines 176-183)
NoArgs ==
  [testMode |-> FALSE, mnemonic |-> JsNull, passphrase |-> "", help |-> FALSE,
   deriveOnly |-> FALSE, noInteractive |-> FALSE]

\* no run of main: nothing read, nothing written, no exit status (-1)
NoRun ==
  [pc |-> "none", argv |-> <<>>, env |-> NoEnv, stdin |-> [isTTY |-> TRUE, data |-> ""],
   args |-> NoArgs, passphrase |-> "", source |-> "none", reads |-> {},
   selected |-> JsUndefined, mnemonic |-> "", entropy |-> "",
   stdout |-> <<>>, stderr |-> <<>>, exitCode |-> -1]

\* a directory that is not there, and one that holds the files
NoDirectory == [exists |-> FALSE, files |-> {}]
Directory(files) == [exists |-> TRUE, files |-> files]

\* no run of convert.sh: nothing read, nothing written, no exit status (-1)
NoShell ==
  [pc |-> "none", argv |-> <<>>,
   env |-> [NON_INTERACTIVE |-> JsUndefined, CARDANO_NETWORK |-> JsUndefined],
   stdin |-> [isTTY |-> TRUE, lines |-> <<>>, rest |-> ""], unread |-> <<>>,
   installed |-> [cardano_address |-> FALSE, cardano_cli |-> FALSE, bech32 |-> FALSE,
                  node |-> FALSE],
   before |-> NoDirectory, fs |-> <<NoDirectory, NoDirectory>>,
   OUT_DIR |-> 1, ORIGINAL_MASTERKEY |-> "", MASTERKEY |-> "",
   stderr |-> <<>>, exitCode |-> -1]

Init ==
  /\ pc = "idle"
  /\ caller = "none"
  /\ hashArg = <<>>
  /\ message = <<>>
  /\ chain = <<>>
  /\ gen = NoFrame
  /\ ret = NoReturn
  /\ keys = {}
  /\ repeated = FALSE
  /\ verifier = <<>>
  /\ heap = NoHeap
  /\ cli = NoRun
  /\ sh = NoShell

\* the frames of the call before are gone when a call starts
\* a step of the library changes nothing of the runs of main and of convert.sh
InLibrary == UNCHANGED <<cli, sh>>

NoHashFrames ==
  /\ caller' = "none"
  /\ hashArg' = <<>>
  /\ message' = <<>>
  /\ chain' = <<>>

\* validateMnemonic at every input of the model
validateMnemonicAt == [m \in ValidateInputs |-> validateMnemonic(m)]

\* a user calls validateMnemonic(m)
CallValidateMnemonic(m) ==
  /\ InLibrary
  /\ pc = "idle"
  /\ LET r == validateMnemonicAt[m]
     IN  /\ ret' = Returned("validateMnemonic", m, <<>>, r.threw, r.value, <<>>)
         /\ verifier' = r.verified
  /\ heap' = NoHeap
  /\ NoHashFrames
  /\ gen' = NoFrame
  /\ repeated' = FALSE
  /\ UNCHANGED <<pc, keys>>

\* a call of one of the two conversions returns: no frame of the other
\* functions is left
ConversionReturns ==
  /\ InLibrary
  /\ pc = "idle"
  /\ NoHashFrames
  /\ gen' = NoFrame
  /\ repeated' = FALSE
  /\ verifier' = <<>>
  /\ heap' = NoHeap
  /\ UNCHANGED <<pc, keys>>

\* a user calls toHexString(bytes)
CallToHexString(bytes) ==
  /\ ret' = Returned("toHexString", JsUndefined, bytes, FALSE, toHexString(bytes), <<>>)
  /\ ConversionReturns

\* a user calls toByteArray(hexString)
CallToByteArray(hexString) ==
  /\ ret' = Returned("toByteArray", JsString(hexString), <<>>, FALSE, "",
                     toByteArray(hexString))
  /\ ConversionReturns

\* a user calls toByteArray(toHexString(bytes)): input and data are the
\* arguments of the two calls, bytes is the value returned
CallToByteArrayOfHexString(bytes) ==
  /\ \E hex \in {toHexString(bytes)} :
       ret' = Returned("toByteArray(toHexString)", JsString(hex), bytes, FALSE, "",
                       toByteArray(hex))
  /\ ConversionReturns

\* a user calls toHexString(toByteArray(hexString)): input and data are the
\* arguments of the two calls, text is the value returned
CallToHexStringOfByteArray(hexString) ==
  /\ \E bytes \in {toByteArray(hexString)} :
       ret' = Returned("toHexString(toByteArray)", JsString(hexString), bytes, FALSE,
                       toHexString(bytes), <<>>)
  /\ ConversionReturns

\* a user calls tweakBits on a buffer whose content is data: ret.data is the
\* content before the call, ret.bytes the content of the buffer returned
CallTweakBits(data) ==
  /\ InLibrary
  /\ pc = "idle"
  /\ \E call \in {tweakBits_call(<<data>>, 1)} :
       /\ heap' = Heap(call.buffers, 1, call.returned)
       /\ ret' = Returned("tweakBits", JsUndefined, data, FALSE, "",
                          call.buffers[call.returned])
  /\ verifier' = <<>>
  /\ NoHashFrames
  /\ gen' = NoFrame
  /\ repeated' = FALSE
  /\ UNCHANGED <<pc, keys>>

\* a user calls hashRepeatedly(msg): the outermost frame is entered
CallHashRepeatedly(msg) ==
  /\ InLibrary
  /\ pc = "idle"
  /\ pc' = "hashing"
  /\ caller' = "user"
  /\ hashArg' = msg
  /\ message' = msg
  /\ chain' = <<>>
  /\ gen' = NoFrame
  /\ ret' = NoReturn
  /\ repeated' = FALSE
  /\ verifier' = <<>>
  /\ heap' = Heap(<<msg>>, 1, 0)
  /\ UNCHANGED keys

\* generateLedgerMasterKey(seed, password), lines 64-83: up to the call of
\* hashRepeatedly(masterSeed)
generateLedgerMasterKey(seed, password) ==
  /\ InLibrary
  /\ pc = "idle"
  /\ ~entropyToMnemonicAt[seed].throws
  /\ LET pbkdf2 == [password |-> PbkdfPassword(seed), salt |-> PbkdfSalt(password),
                    iterations |-> PbkdfIterations, keylen |-> PbkdfKeylen,
                    digest |-> "sha512"]
         masterSeed == pbkdf2Sync(pbkdf2.password, pbkdf2.salt, pbkdf2.iterations,
                                  pbkdf2.keylen, pbkdf2.digest)
         ccMessage == ChainCodeMessage(masterSeed)
         cc == HmacSha256("ed25519 seed", ccMessage)
     IN  /\ gen' = [seed |-> seed, password |-> password, pbkdf2 |-> pbkdf2,
                    masterSeed |-> masterSeed, ccMessage |-> ccMessage, cc |-> cc]
         /\ hashArg' = HashSeed(masterSeed)
         /\ message' = HashSeed(masterSeed)
         /\ heap' = Heap(<<HashSeed(masterSeed)>>, 1, 0)
  /\ pc' = "hashing"
  /\ caller' = "generateLedgerMasterKey"
  /\ chain' = <<>>
  /\ ret' = NoReturn
  /\ repeated' = FALSE
  /\ verifier' = <<>>
  /\ UNCHANGED keys

\* generateLedgerMasterKey(seed, password) when bip39.entropyToMnemonic(seed)
\* throws (line 67): nothing catches the error, the call ends with it and
\* nothing is returned
generateLedgerMasterKey_throw(seed, password) ==
  /\ InLibrary
  /\ pc = "idle"
  /\ entropyToMnemonicAt[seed].throws
  /\ ret' = Returned("generateLedgerMasterKey", JsString(seed), <<>>, TRUE,
                     InvalidEntropyError, <<>>)
  /\ NoHashFrames
  /\ gen' = NoFrame
  /\ repeated' = FALSE
  /\ verifier' = <<>>
  /\ heap' = NoHeap
  /\ UNCHANGED <<pc, keys>>

\* const i = crypto.createHmac("sha512", "ed25519 seed").update(message).digest()
Digest == HmacSha512(HashKey, message)

\* a frame of hashRepeatedly whose digest is rejected: it calls itself
hashRepeatedly_recurse ==
  /\ InLibrary
  /\ pc = "hashing"
  /\ Len(chain) < MaxRounds
  /\ \E i \in {Digest} :
       /\ Rejected(i)
       /\ message' = NextMessage(message, i)
       /\ chain' = Append(chain, i)
       /\ heap' = Heap(Append(heap.buffers, i), heap.argument, 0)
  /\ UNCHANGED <<pc, caller, hashArg, gen, ret, keys, repeated, verifier>>

\* a frame of hashRepeatedly whose digest is accepted, called by the user:
\* the digest is returned through every frame
hashRepeatedly_return ==
  /\ InLibrary
  /\ pc = "hashing"
  /\ caller = "user"
  /\ Len(chain) < MaxRounds
  /\ \E i \in {Digest} :
       /\ ~Rejected(i)
       /\ chain' = Append(chain, i)
       /\ heap' = Heap(Append(heap.buffers, i), heap.argument, Len(heap.buffers) + 1)
       /\ ret' = Returned("hashRepeatedly", JsUndefined, hashArg, FALSE, "", i)
  /\ pc' = "idle"
  /\ UNCHANGED <<caller, hashArg, message, gen, keys, repeated, verifier>>

\* the digest is accepted and returned to generateLedgerMasterKey, which goes
\* on with lines 83-89: tweakBits, the concatenation, the return
generateLedgerMasterKey_return ==
  /\ InLibrary
  /\ pc = "hashing"
  /\ caller = "generateLedgerMasterKey"
  /\ Len(chain) < MaxRounds
  /\ \E i \in {Digest} :
       /\ ~Rejected(i)
       /\ chain' = Append(chain, i)
       /\ \E call \in {tweakBits_call(Append(heap.buffers, i), Len(heap.buffers) + 1)} :
         \E masterKey \in {MasterKey(call.buffers[call.returned], gen.cc)} :
            /\ heap' = Heap(Append(call.buffers, masterKey), heap.argument,
                            Len(call.buffers) + 1)
            /\ ret' = Returned("generateLedgerMasterKey", JsUndefined, <<>>, FALSE, "",
                               masterKey)
            /\ keys' = keys \cup {[seed |-> gen.seed, password |-> gen.password,
                                   key |-> masterKey]}
  /\ repeated' = \E k \in keys : k.seed = gen.seed /\ k.password = gen.password
  /\ pc' = "idle"
  /\ UNCHANGED <<caller, hashArg, message, gen, verifier>>

\* a frame of hashRepeatedly runs
HashStep ==
  \/ hashRepeatedly_recurse
  \/ hashRepeatedly_return
  \/ generateLedgerMasterKey_return

\* the calls that reach hashRepeatedly, and its frames
HashNext ==
  \/ \E msg \in HashInputs : CallHashRepeatedly(msg)
  \/ \E input \in GenerateInputs : generateLedgerMasterKey(input[1], input[2])
  \/ HashStep

Next ==
  \/ \E m \in ValidateInputs : CallValidateMnemonic(m)
  \/ \E data \in TweakInputs : CallTweakBits(data)
  \/ \E input \in GenerateInputs : generateLedgerMasterKey_throw(input[1], input[2])
  \/ HashNext

Spec == Init /\ [][Next]_vars

\* the calls of the two conversions
HexNext ==
  \/ \E bytes \in ByteInputs : CallToHexString(bytes)
  \/ \E hexString \in HexInputs : CallToByteArray(hexString)
  \/ \E bytes \in ByteInputs : CallToByteArrayOfHexString(bytes)
  \/ \E hexString \in HexInputs : CallToHexStringOfByteArray(hexString)

HexSpec == Init /\ [][HexNext]_vars

\* the calls of generateLedgerMasterKey with entropies of every length
EntropyNext ==
  \/ \E seed \in EntropyInputs : generateLedgerMasterKey(seed, "")
  \/ \E seed \in EntropyInputs : generateLedgerMasterKey_throw(seed, "")
  \/ hashRepeatedly_recurse
  \/ generateLedgerMasterKey_return

EntropySpec == Init /\ [][EntropyNext]_vars

\* The derivation alone, under the scheduling of a synchronous call: a frame
\* of hashRepeatedly that has been entered runs.
FairSpec == Init /\ [][HashNext]_vars /\ WF_vars(HashStep)

\* the expected master key of the unit tests (tests/index.test.js 20-21)
TEST_EXPECTED_MASTER_KEY ==
  "402b03cd9c8bed9ba9f9bd6cd9c315ce9fcc59c7c25d37c85a36096617e69d41"
    \o "8e35cb4a3b737afd007f0688618f21a8831643c0e6c77fc33c06026d2a0fc938"
    \o "32596435e70647d7d98ef102a32ea40319ca8fb6c851d7346d3bd8f9d1492658"

(***************************************************************************)
(* The command line: parseArgs, readMnemonicSecurely and main (index.js    *)
(* 129-342).  stdout and stderr are the sequences of the texts written by  *)
(* console.log and by console.warn/console.error; a sign outside ASCII is  *)
(* written by its name in parentheses.                                     *)
(***************************************************************************)

\* lines 265-268: what --test writes before it derives
TestModeLines ==
  << "(warning sign)  TEST MODE: Using canonical test mnemonic",
     "Expected first address: addr1qy2vzmtlgvjrhkq50rngh8d482zj3l20kyrc6kx4ffl3zfqayfawlf9"
       \o "hwv2fzuygt2km5v92kvf8e3s3mk7ynxw77cwqf7zhh2\n" >>

\* the mnemonic of test mode (lines 269-270)
CANONICAL_TEST_MNEMONIC ==
  "abandon abandon abandon abandon abandon abandon abandon abandon abandon abandon abandon about"

EnvWarning == "(warning sign)  WARNING: Using MNEMONIC from environment variable"

\* lines 235-240: what readMnemonicSecurely writes before it reads
PromptLines ==
  << "\n(warning sign)  SECURITY WARNING: Ensure you are on an OFFLINE, air-gapped machine!",
     "Type or paste your mnemonic phrase below:",
     "Mnemonic (12-24 words): " >>

NoMnemonicError == "No mnemonic provided. Use --mnemonic, stdin, or interactive mode."

ErrorLine(msg) == "\n(cross mark) Error: " \o msg

KeyLine(masterString) == "\nLedger Master Key: " \o masterString

RECURSIVE parseArgsLoop(_, _, _)
\* the loop of parseArgs from args[i - 1] on (lines 185-217); st.result is the
\* result object, st.stderr what console.warn and console.error have written
parseArgsLoop(args, i, st) ==
  IF i > Len(args) THEN st
  ELSE
    LET arg == args[i]
        hasValue == i + 1 <= Len(args)
    IN  CASE arg = "--test" ->
               parseArgsLoop(args, i + 1, [st EXCEPT !.result.testMode = TRUE])
          [] arg = "--mnemonic" ->
               IF hasValue
                 THEN parseArgsLoop(args, i + 2,
                        [st EXCEPT !.result.mnemonic = JsString(args[i + 1]),
                                   !.stderr = Append(@,
                                      "(warning sign)  WARNING: Using --mnemonic is "
                                        \o "insecure (visible in process list)")])
                 ELSE parseArgsLoop(args, i + 1, st)
          [] arg = "--passphrase" ->
               IF hasValue
                 THEN parseArgsLoop(args, i + 2, [st EXCEPT !.result.passphrase = args[i + 1]])
                 ELSE parseArgsLoop(args, i + 1, st)
          [] arg = "--derive-only" ->
               parseArgsLoop(args, i + 1, [st EXCEPT !.result.deriveOnly = TRUE])
          [] arg = "--no-interactive" ->
               parseArgsLoop(args, i + 1, [st EXCEPT !.result.noInteractive = TRUE])
          [] arg \in {"--help", "-h"} ->
               parseArgsLoop(args, i + 1, [st EXCEPT !.result.help = TRUE])
          [] OTHER ->
               parseArgsLoop(args, i + 1,
                 [st EXCEPT !.result.help = TRUE, !.stderr = Append(@, "Unknown option: " \o arg)])

\* args.passphrase || process.env.PASSPHRASE || "" (line 261)
Passphrase(args, env) ==
  IF args.passphrase # "" THEN args.passphrase
  ELSE IF Truthy(env.PASSPHRASE) THEN env.PASSPHRASE.v
  ELSE ""

\* the line rl.question hands to its callback: what was typed up to the end
\* of the first line
FirstLine(data) ==
  LET ends == {k \in 1..Len(data) : CharAt(data, k) = "\n"}
  IN  IF ends = {} THEN data ELSE SubSeq(data, 1, Min(ends) - 1)

\* one way through the chain of lines 264-291: the source taken, the sources
\* whose value was read on the way, the mnemonic, and what was written
Selected(source, reads, mnemonic, stdout, stderr) ==
  [source |-> source, reads |-> reads, mnemonic |-> mnemonic, stdout |-> stdout,
   stderr |-> stderr]

\* a chain that asks for the --mnemonic argument before it asks for --test
SelectMnemonicArgumentFirst(args, env, stdin) ==
  IF Truthy(args.mnemonic)
    THEN Selected("argument", {"argument"}, args.mnemonic, <<>>, <<>>)
  ELSE IF args.testMode
    THEN Selected("test", {"argument"}, JsString(CANONICAL_TEST_MNEMONIC),
                  TestModeLines, <<>>)
  ELSE IF Truthy(env.MNEMONIC)
    THEN Selected("environment", {"argument", "environment"}, env.MNEMONIC, <<>>,
                  <<EnvWarning>>)
  ELSE IF ~stdin.isTTY
    THEN Selected("stdin", {"argument", "environment", "stdin"},
                  JsString(trim(stdin.data)), <<>>, <<>>)
  ELSE IF ~args.deriveOnly /\ ~args.noInteractive
    THEN Selected("prompt", {"argument", "environment", "prompt"},
                  JsString(FirstLine(stdin.data)),
                  PromptLines, <<>>)
  ELSE Selected("none", {"argument", "environment"}, JsUndefined, <<>>, <<>>)

\* a chain that asks for the environment before it asks for the argument
SelectMnemonicEnvironmentFirst(args, env, stdin) ==
  IF args.testMode
    THEN Selected("test", {}, JsString(CANONICAL_TEST_MNEMONIC),
                  TestModeLines, <<>>)
  ELSE IF Truthy(env.MNEMONIC)
    THEN Selected("environment", {"environment"}, env.MNEMONIC, <<>>, <<EnvWarning>>)
  ELSE IF Truthy(args.mnemonic)
    THEN Selected("argument", {"argument", "environment"}, args.mnemonic, <<>>, <<>>)
  ELSE IF ~stdin.isTTY
    THEN Selected("stdin", {"argument", "environment", "stdin"},
                  JsString(trim(stdin.data)), <<>>, <<>>)
  ELSE IF ~args.deriveOnly /\ ~args.noInteractive
    THEN Selected("prompt", {"argument", "environment", "prompt"},
                  JsString(FirstLine(stdin.data)),
                  PromptLines, <<>>)
  ELSE Selected("none", {"argument", "environment"}, JsUndefined, <<>>, <<>>)

\* lines 264-291 of main: the chain of if / else if that determines the
\* source of the mnemonic
SelectMnemonic(args, env, stdin) ==
  IF args.testMode
    THEN Selected("test", {}, JsString(CANONICAL_TEST_MNEMONIC),
                  TestModeLines, <<>>)
  ELSE IF Truthy(args.mnemonic)
    THEN Selected("argument", {"argument"}, args.mnemonic, <<>>, <<>>)
  ELSE IF Truthy(env.MNEMONIC)
    THEN Selected("environment", {"argument", "environment"}, env.MNEMONIC, <<>>,
                  <<EnvWarning>>)
  ELSE IF ~stdin.isTTY
    THEN Selected("stdin", {"argument", "environment", "stdin"},
                  JsString(trim(stdin.data)), <<>>, <<>>)
  ELSE IF ~args.deriveOnly /\ ~args.noInteractive
    THEN Selected("prompt", {"argument", "environment", "prompt"},
                  JsString(FirstLine(stdin.data)),
                  PromptLines, <<>>)
  ELSE Selected("none", {"argument", "environment"}, JsUndefined, <<>>, <<>>)

\* bip39.mnemonicToEntropy of a sentence validateMnemonic has returned
mnemonicToEntropy(mnemonic) ==
  LET hit == {e \in ENTROPY_MNEMONIC_SAMPLES : e.mnemonic = mnemonic}
  IN  IF hit = {} THEN "" ELSE (CHOOSE e \in hit : TRUE).entropy

\* a catch block that reports the error and exits with status 0
CatchExitZero(run, msg) ==
  [run EXCEPT !.pc = "exited",
              !.stderr = @ \o <<ErrorLine(msg)>>
                           \o (IF Truthy(run.env.DEBUG)
                                 THEN <<"\nStack trace:", "Error: " \o msg \o "\n    at main">>
                                 ELSE <<"(Run with DEBUG=1 for detailed error information)">>),
              !.exitCode = 0]

\* the catch block of main (lines 324-336) for an error with message msg
Catch(run, msg) ==
  [run EXCEPT !.pc = "exited",
              !.stderr = @ \o <<ErrorLine(msg)>>
                           \o (IF Truthy(run.env.DEBUG)
                                 THEN <<"\nStack trace:", "Error: " \o msg \o "\n    at main">>
                                 ELSE <<"(Run with DEBUG=1 for detailed error information)">>),
              !.exitCode = 1]

\* main from its first line to the call of generateLedgerMasterKey (lines
\* 251-297): the run after it has exited, or at that call
MainStart(argv, env, stdin) ==
  LET parsed == parseArgsLoop(argv, 1, [result |-> NoArgs, stderr |-> <<>>])
      args == parsed.result
      run == [NoRun EXCEPT !.argv = argv, !.env = env, !.stdin = stdin, !.args = args,
                           !.stderr = parsed.stderr]
  IN  IF args.help
        THEN [run EXCEPT !.pc = "exited",
                         !.stdout = <<"\nCardano Ledger Master Key Generator\n"
                                        \o "====================================\n"
                                        \o "\nUsage:\n  node index.js [options]\n">>,
                         !.exitCode = 0]
      ELSE
        LET sel == SelectMnemonic(args, env, stdin)
            chosen == [run EXCEPT !.passphrase = Passphrase(args, env),
                                  !.source = sel.source, !.reads = sel.reads,
                                  !.selected = sel.mnemonic,
                                  !.stdout = @ \o sel.stdout, !.stderr = @ \o sel.stderr]
        IN  IF sel.source = "none" THEN Catch(chosen, NoMnemonicError)
            ELSE
              LET valid == validateMnemonicAt[sel.mnemonic]
              IN  IF valid.threw THEN Catch(chosen, valid.value)
                  ELSE [chosen EXCEPT !.pc = "validated", !.mnemonic = valid.value,
                                      !.entropy = mnemonicToEntropy(valid.value)]

\* the state of the exported functions, which a step of main alone leaves
library == <<pc, caller, hashArg, message, chain, gen, ret, keys, repeated, verifier, heap>>

\* node index.js is started with argv, env and stdin, and main runs up to its
\* exit or up to the call of generateLedgerMasterKey
main_start(argv, env, stdin) ==
  /\ cli.pc = "none"
  /\ cli' = MainStart(argv, env, stdin)
  /\ UNCHANGED <<library, sh>>

\* line 297: main calls generateLedgerMasterKey(entropy, passphrase)
main_generate ==
  /\ cli.pc = "validated"
  /\ gen = NoFrame
  /\ generateLedgerMasterKey(cli.entropy, cli.passphrase)

\* lines 298-323: the key has been returned; main writes it and exits
main_exit ==
  /\ cli.pc = "validated"
  /\ pc = "idle"
  /\ ret.fn = "generateLedgerMasterKey"
  /\ \E masterString \in {toHexString(ret.bytes)} :
       cli' = [cli EXCEPT
                 !.pc = "exited",
                 !.stdout =
                   @ \o (IF cli.args.deriveOnly THEN <<masterString>>
                         ELSE <<KeyLine(masterString)>>
                                \o (IF ~cli.args.testMode
                                      THEN << "\n(check mark) Master key generated successfully",
                                              "(warning sign)  Keep this key secure! It can be "
                                                \o "used to derive all your wallet keys.",
                                              "Next step: Use convert.sh to generate Cardano "
                                                \o "addresses and keys\n" >>
                                      ELSE <<>>)),
                 !.exitCode = 0]
  /\ UNCHANGED <<library, sh>>

\* the input of the docker test of the validation: four words
INVALID_MNEMONIC == "invalid mnemonic words here"

Optional(tokens) == {<<>>, tokens}

\* a run of node index.js.  The command lines are every combination of the
\* options, and the ones that end with an option that needs a value, give an
\* option as a value, or ask for the help
CliNext ==
  \/ \E argv \in
          {t \o m \o p \o d \o n :
             t \in Optional(<<"--test">>),
             m \in Optional(<<"--mnemonic", entropyToMnemonic(WRAP_ENTROPY)>>)
                    \cup {<<"--mnemonic", "">>, <<"--mnemonic", INVALID_MNEMONIC>>},
             p \in Optional(<<"--passphrase", "TREZOR">>),
             d \in Optional(<<"--derive-only">>),
             n \in Optional(<<"--no-interactive">>)}
            \cup { <<"--help">>, <<"-h", "--test">>, <<"--test", "--help">>,
                   <<"--test", "--bogus">>, <<"--mnemonic">>, <<"--test", "--mnemonic">>,
                   <<"--mnemonic", "--test">>, <<"--test", "--passphrase", "">>,
                   <<"--test", "--passphrase">> },
        env \in
          [MNEMONIC : {JsUndefined, JsString(""), JsString(entropyToMnemonic(ART_ENTROPY)),
                       JsString(INVALID_MNEMONIC)},
           PASSPHRASE : {JsUndefined, JsString("b")},
           DEBUG : {JsUndefined, JsString("1")}],
        stdin \in
          [isTTY : BOOLEAN,
           data : {"", entropyToMnemonic(ZeroEntropy(24)) \o "\n", INVALID_MNEMONIC \o "\n"}] :
       main_start(argv, env, stdin)
  \/ main_generate
  \/ hashRepeatedly_recurse
  \/ generateLedgerMasterKey_return
  \/ main_exit

CliSpec == Init /\ [][CliNext]_vars

(***************************************************************************)
(* convert.sh, run with one or more arguments and SKIP_ENCRYPTION=1.  Of   *)
(* what the script writes, stderr is kept (the texts without the colour    *)
(* codes, the sign of error() written by its name); the output directories *)
(* are kept by the names of their files.                                   *)
(***************************************************************************)
\* error() (lines 52-54)
error(text) == "(ballot x) " \o text

Unrecognized == "Unrecognized input format"
MustBeHexadecimal == "Master key must be hexadecimal"

\* [[ "$s" =~ ^[0-9a-fA-F]+$ ]]
IsHexString(s) == s # "" /\ \A k \in 1..Len(s) : IsHexDigit(CharAt(s, k))

RECURSIVE deleteSpace(_, _, _)
\* tr -d '[:space:]' on the characters from..to of s
deleteSpace(s, from, to) ==
  IF from > to THEN ""
  ELSE IF from = to THEN (IF IsWhiteSpace(CharAt(s, from)) THEN "" ELSE CharAt(s, from))
  ELSE LET mid == (from + to) \div 2
       IN  deleteSpace(s, from, mid) \o deleteSpace(s, mid + 1, to)

RECURSIVE joinWords(_, _)
\* the first n words of s with one space between them
joinWords(s, n) ==
  IF n = 0 THEN ""
  ELSE IF n = 1 THEN Word(s, 1)
  ELSE joinWords(s, n - 1) \o " " \o Word(s, n)

\* what the run of node leaves after 2>/dev/null | tr -d '[:space:]': the
\* status of the pipeline and its output; the key a valid mnemonic gives is
\* the one of the known vector (canonical mnemonic, no passphrase)
Piped(run) ==
  LET hit == {e \in {[mnemonic |-> CANONICAL_TEST_MNEMONIC, passphrase |-> "",
                      masterString |-> TEST_EXPECTED_MASTER_KEY]} :
                e.mnemonic = run.mnemonic /\ e.passphrase = run.passphrase}
  IN  IF run.pc = "exited" THEN [status |-> run.exitCode, out |-> ""]
      ELSE IF hit = {} THEN [status |-> 0, out |-> ""]
      ELSE [status |-> 0, out |-> (CHOOSE e \in hit : TRUE).masterString]

\* echo "$input" | node index.js --derive-only --no-interactive 2>/dev/null
\*   | tr -d '[:space:]' (line 82): the status of the pipeline and its output
DeriveOnly(input) ==
  Piped(MainStart(<<"--derive-only", "--no-interactive">>, NoEnv,
                  [isTTY |-> FALSE, data |-> input \o "\n"]))

\* lines 83-90: the key is taken when the pipeline ended with status 0 and
\* gave 192 characters
DerivedKey(derived) ==
  IF derived.status = 0 /\ derived.out # "" /\ Len(derived.out) = 192
    THEN [status |-> 0, out |-> derived.out, stderr |-> <<>>]
    ELSE [status |-> 1, out |-> "",
          stderr |-> <<error("Failed to derive master key from seed phrase")>>]

\* what a function of the script hands back: its status, what it wrote to
\* stdout and to stderr
Status(status, out, stderr) == [status |-> status, out |-> out, stderr |-> stderr]

\* process_master_input (lines 57-125); on a failure what it wrote to stdout
\* is of no use to the caller and is left out
process_master_input(input, installed) ==
  LET stripped == deleteSpace(input, 1, Len(input))
      phrase == joinWords(input, NumberOfWords(input))
      word_count == NumberOfWords(phrase)
  IN  IF IsHexString(stripped) /\ Len(stripped) = 192 THEN Status(0, stripped, <<>>)
      ELSE IF word_count \in {12, 15, 18, 21, 24}
        THEN IF installed.node
               THEN DerivedKey(DeriveOnly(phrase))
               ELSE Status(1, "",
                      <<error("Node.js not available to derive master key from seed phrase")>>)
      ELSE IF IsHexString(phrase)
        THEN Status(1, "",
               <<error("Hex input detected but wrong length: " \o ToString(Len(phrase))
                         \o " characters (expected 192)")>>)
      ELSE Status(1, "", <<error(Unrecognized)>>)

\* the input of the docker test of an invalid master key
INVALID_KEY == "invalid_key"

\* process_master_input, with and without node, of what the model's runs
\* give as the master key or seed phrase
process_master_inputAt ==
  [input \in {TEST_EXPECTED_MASTER_KEY, INVALID_KEY, SubSeq(TEST_EXPECTED_MASTER_KEY, 1, 64),
              CANONICAL_TEST_MNEMONIC, Words(12, "abandon", " "), "1", "2"} |->
     [node \in BOOLEAN |-> process_master_input(input, [node |-> node])]]

\* validate_master_key (lines 128-144)
validate_master_key(key) ==
  IF ~IsHexString(key) THEN Status(1, "", <<error(MustBeHexadecimal)>>)
  ELSE IF Len(key) # 192
    THEN Status(1, "", <<error("Master key length is " \o ToString(Len(key))
                                 \o " (expected 192 characters)")>>)
  ELSE Status(0, "", <<>>)

\* the script ends with the status after writing the texts to stderr
Exit(run, status, texts) ==
  [run EXCEPT !.pc = "exited", !.stderr = @ \o texts, !.exitCode = status]

\* lines 268-283 and 324-349: the required tools and the network
CheckTools(run) ==
  IF ~run.installed.cardano_address
    THEN Exit(run, 127,
              <<error("cardano-address cannot be found in PATH"),
                "Install from: https://github.com/IntersectMBO/cardano-wallet/releases">>)
  ELSE IF ~run.installed.cardano_cli
    THEN Exit(run, 127,
              <<error("cardano-cli cannot be found in PATH"),
                "Install from: https://github.com/IntersectMBO/cardano-node/releases">>)
  ELSE IF /\ Truthy(run.env.CARDANO_NETWORK)
          /\ run.env.CARDANO_NETWORK.v \notin {"mainnet", "testnet", "preprod", "preview"}
    THEN Exit(run, 1,
              <<error("Unknown network: " \o run.env.CARDANO_NETWORK.v),
                "Valid networks: mainnet, testnet, preprod, preview">>)
  ELSE [run EXCEPT !.pc = "started"]

\* lines 474-495: the output directory and the master key of a run with
\* arguments; read -r takes a line of stdin and fails at the end of the input
ReadArguments(run) ==
  IF Len(run.argv) = 2
    THEN [run EXCEPT !.pc = "read", !.ORIGINAL_MASTERKEY = run.argv[2],
                     !.MASTERKEY = run.argv[2]]
  ELSE IF Len(run.argv) = 1
    THEN IF run.stdin.isTTY
           THEN Exit(run, 1,
                  <<error("usage: ./convert.sh <output_dir> [master_key]"),
                    "       or pipe master key via stdin: echo \"$KEY\" | ./convert.sh output_dir",
                    "       or run without arguments for interactive mode">>)
         ELSE IF run.unread = <<>>
           THEN Exit([run EXCEPT !.MASTERKEY = run.stdin.rest], 1, <<>>)
         ELSE [run EXCEPT !.pc = "read", !.ORIGINAL_MASTERKEY = Head(run.unread),
                          !.MASTERKEY = Head(run.unread), !.unread = Tail(run.unread)]
  ELSE Exit(run, 1,
            <<error("usage: ./convert.sh [output_dir] [master_key]"),
              "       or run without arguments for interactive mode">>)

\* lines 497-524: under set -e the script ends with the status of
\* process_master_input when that is not 0
ProcessKey(run) ==
  LET processed == process_master_inputAt[run.MASTERKEY][run.installed.node]
  IN  IF processed.status # 0 THEN Exit(run, processed.status, processed.stderr)
      ELSE
        LET validated == validate_master_key(processed.out)
        IN  IF validated.status # 0
              THEN Exit([run EXCEPT !.MASTERKEY = processed.out], 1, validated.stderr)
              ELSE [run EXCEPT !.pc = "validated", !.MASTERKEY = processed.out]

\* rm -rf "$OUT_DIR"/* "$OUT_DIR"/.* and mkdir -p "$OUT_DIR"
Clean(run) == [run EXCEPT !.fs[run.OUT_DIR] = Directory({})]

\* mkdir -p "$OUT_DIR"
Mkdir(run, dir) ==
  [run EXCEPT !.OUT_DIR = dir,
              !.fs[dir] = IF @.exists THEN @ ELSE Directory({})]

\* lines 526-570: the output directory is made, or emptied when it is there;
\* without NON_INTERACTIVE=1 the script asks what to do with it, and choice 2
\* takes ${OUT_DIR}_$(date +%Y%m%d_%H%M%S), the second directory of the model
OutputDirectory(run) ==
  LET entered == [run EXCEPT !.pc = "directory"]
  IN  IF run.fs[run.OUT_DIR].exists
        THEN IF run.env.NON_INTERACTIVE = JsString("1") THEN Clean(entered)
             ELSE IF run.unread = <<>> THEN Exit(run, 1, <<>>)
             ELSE LET choice == Head(run.unread)
                      asked == [run EXCEPT !.unread = Tail(run.unread)]
                  IN  CASE choice = "1" -> Clean([asked EXCEPT !.pc = "directory"])
                        [] choice = "2" -> Mkdir([asked EXCEPT !.pc = "directory"], 2)
                        [] choice = "3" -> Exit(asked, 1, <<>>)
                        [] OTHER -> Exit(asked, 1, <<error("Invalid choice. Exiting.")>>)
      ELSE Mkdir(entered, run.OUT_DIR)

\* the files steps 1 to 7 and the audit log leave in the output directory
KeyFiles ==
  {"root.prv", "stake.xprv", "payment.xprv", "stake.xpub", "payment.xpub",
   "base.addr_candidate", "stake.skey", "payment.skey", "stake.vkey", "payment.vkey",
   "stake.addr", "payment.addr", "base.addr", "generation-log.txt"}

\* lines 572-984: the tools run in the output directory; the status of the
\* first of them, bech32, is 0 or not, and with a status that is not 0 the
\* script ends under set -e with the file of the redirection left behind
Generate(run, status) ==
  IF ~run.installed.bech32
    THEN Exit(run, 1, <<error("bech32 tool not found - required for key encoding")>>)
  ELSE IF status # 0
    THEN Exit([run EXCEPT !.fs[run.OUT_DIR].files = @ \cup {"root.prv"}], status, <<>>)
  ELSE Exit([run EXCEPT !.fs[run.OUT_DIR].files = @ \cup KeyFiles], 0, <<>>)

\* ./convert.sh is started
convert_start(argv, env, stdin, installed, directory) ==
  /\ sh.pc = "none"
  /\ sh' = CheckTools([NoShell EXCEPT !.argv = argv, !.env = env, !.stdin = stdin,
                                      !.unread = stdin.lines, !.installed = installed,
                                      !.before = directory,
                                      !.fs = <<directory, NoDirectory>>])
  /\ UNCHANGED <<library, cli>>

convert_read ==
  /\ sh.pc = "started"
  /\ sh' = ReadArguments(sh)
  /\ UNCHANGED <<library, cli>>

convert_process ==
  /\ sh.pc = "read"
  /\ sh' = ProcessKey(sh)
  /\ UNCHANGED <<library, cli>>

convert_directory ==
  /\ sh.pc = "validated"
  /\ sh' = OutputDirectory(sh)
  /\ UNCHANGED <<library, cli>>

convert_generate ==
  /\ sh.pc = "directory"
  /\ \E status \in {0, 1, 2} : sh' = Generate(sh, status)
  /\ UNCHANGED <<library, cli>>

\* a run of convert.sh.  The arguments are the output directory (the first of
\* the two directories of the model), with and without a key, and one
\* argument too many; stdin is a pipe or a terminal, with its lines and what
\* follows the last newline; the tools are all there or one of them is
\* missing; the output directory is not there, empty, or holds files
ShNext ==
  \/ \E argv \in
          { <<"/output">>, <<"/output", TEST_EXPECTED_MASTER_KEY>>,
            <<"/output", INVALID_KEY>>, <<"/output", TEST_EXPECTED_MASTER_KEY, "mainnet">> },
        env \in
          [NON_INTERACTIVE : {JsUndefined, JsString("1")},
           CARDANO_NETWORK : {JsUndefined, JsString("bogus")}],
        stdin \in
          [isTTY : {FALSE},
           lines : { <<>>, <<TEST_EXPECTED_MASTER_KEY>>, <<INVALID_KEY>>,
                     <<SubSeq(TEST_EXPECTED_MASTER_KEY, 1, 64)>>,
                     <<CANONICAL_TEST_MNEMONIC>>, <<Words(12, "abandon", " ")>>,
                     <<TEST_EXPECTED_MASTER_KEY, "1">>, <<TEST_EXPECTED_MASTER_KEY, "2">>,
                     <<TEST_EXPECTED_MASTER_KEY, "3">>, <<TEST_EXPECTED_MASTER_KEY, "">>,
                     <<"1">>, <<"2">> },
           rest : {""}]
            \cup [isTTY : {TRUE}, lines : {<<>>, <<"1">>, <<"2">>}, rest : {""}]
            \cup {[isTTY |-> FALSE, lines |-> <<>>, rest |-> TEST_EXPECTED_MASTER_KEY]},
        installed \in
          {tools \in [cardano_address : BOOLEAN, cardano_cli : BOOLEAN, bech32 : BOOLEAN,
                      node : BOOLEAN] :
             Cardinality({tool \in DOMAIN tools : ~tools[tool]}) <= 1},
        directory \in
          {NoDirectory, Directory({}), Directory({"existing.txt"}),
           Directory({"existing.txt", ".hidden"})} :
       convert_start(argv, env, stdin, installed, directory)
  \/ convert_read
  \/ convert_process
  \/ convert_directory
  \/ convert_generate

ShSpec == Init /\ [][ShNext]_vars

(***************************************************************************)
(* The claims.                                                             *)
(***************************************************************************)
\* hashRepeatedly has returned (to the user or to generateLedgerMasterKey)
\* and HashResult is what it returned
HashReturned == pc = "idle" /\ chain # <<>>
HashResult == Last(chain)

TweakReturned == ret.fn = "tweakBits"
GenerateReturned == ret.fn = "generateLedgerMasterKey" /\ ~ret.threw
ValidateReturned == ret.fn = "validateMnemonic"

C2_TweakOfByte63 ==
  (TweakReturned /\ Len(ret.data) = 64) =>
     /\ ret.bytes[1] % 8 = 0
     /\ Bit(ret.bytes[64], 7) = 0
     /\ Bit(ret.bytes[64], 6) = 1

\* C2 amended: for a 64-byte input, the value tweakBits returns has the low
\* 3 bits of byte 0 clear, the top bit of byte 31 clear and bit 6 of byte 31
\* set.
C2_TweakOfByte31 ==
  (TweakReturned /\ Len(ret.data) = 64) =>
     /\ Len(ret.bytes) = 64
     /\ ret.bytes[1] % 8 = 0
     /\ Bit(ret.bytes[32], 7) = 0
     /\ Bit(ret.bytes[32], 6) = 1

\* tweakBits returned for a 64-byte input in which all three updates change
\* a bit
C2_Witness ==
  /\ TweakReturned
  /\ Len(ret.data) = 64
  /\ ret.data[1] % 8 # 0
  /\ Bit(ret.data[32], 7) = 1
  /\ Bit(ret.data[32], 6) = 0

\* C3 as stated: the master key is 96 bytes long, the low 3 bits of its byte 0
\* are clear, the top bit of its byte 63 is clear and bit 6 of its byte 63 is
\* set.
C3_KeyOfByte63 ==
  GenerateReturned =>
     /\ Len(ret.bytes) = 96
     /\ ret.bytes[1] % 8 = 0
     /\ Bit(ret.bytes[64], 7) = 0
     /\ Bit(ret.bytes[64], 6) = 1

\* C3 amended: the master key is 96 bytes long, the low 3 bits of its byte 0
\* are clear, the top bit of its byte 31 is clear and bit 6 of its byte 31 is
\* set, also when the hasher took two or more rounds.
C3_KeyOfByte31 ==
  GenerateReturned =>
     /\ Len(ret.bytes) = 96
     /\ ret.bytes[1] % 8 = 0
     /\ Bit(ret.bytes[32], 7) = 0
     /\ Bit(ret.bytes[32], 6) = 1

\* a master key whose derivation took two or more HMAC rounds and whose
\* accepted digest the tweak changed in byte 0 and in byte 31
C3_Witness ==
  /\ GenerateReturned
  /\ HashReturned
  /\ Len(chain) >= 2
  /\ HashResult[1] % 8 # 0
  /\ Bit(HashResult[32], 7) = 1

IsTestVector ==
  /\ GenerateReturned
  /\ gen.pbkdf2.password =
       "abandon abandon abandon abandon abandon abandon abandon abandon abandon abandon abandon about"
  /\ gen.password = ""

\* C4: for the mnemonic "abandon ... abandon about" and the empty passphrase
\* the hex encoding of the master key is 402b03cd...d1492658.
C4_KnownVector == IsTestVector => toHexString(ret.bytes) = TEST_EXPECTED_MASTER_KEY

\* the known vector has been derived, in the five HMAC rounds it takes
C4_Witness == IsTestVector /\ gen.seed = TEST_ENTROPY /\ Len(chain) = 5

SingleWordApart(m1, m2) ==
  /\ NumberOfWords(m1) = NumberOfWords(m2)
  /\ Cardinality({n \in 1..NumberOfWords(m1) : Word(m1, n) # Word(m2, n)}) = 1

\* the pairs of sampled entropies whose mnemonics differ in exactly one word
SingleWordPairs ==
  UNION {IF SingleWordApart(entropyToMnemonic(p[1]), entropyToMnemonic(p[2])) THEN {p} ELSE {} :
           p \in {e.entropy : e \in ENTROPY_MNEMONIC_SAMPLES}
                   \X {e.entropy : e \in ENTROPY_MNEMONIC_SAMPLES}}

C7_Layout ==
  GenerateReturned =>
     /\ Len(ret.bytes) = 96
     /\ SubSeq(ret.bytes, 1, 64) = tweakBits(HashResult)
     /\ SubSeq(ret.bytes, 65, 96) = HmacSha256("ed25519 seed", <<1>> \o gen.masterSeed)
     /\ Len(<<1>> \o gen.masterSeed) = 65
     /\ gen.masterSeed = pbkdf2Sync(gen.pbkdf2.password, gen.pbkdf2.salt, 2048, 64, "sha512")
     /\ SubSeq(ret.bytes, 65, 96) # OffSample(32)

\* a key whose scalar took several rounds and was changed by the tweak
C7_Witness ==
  /\ GenerateReturned
  /\ Len(chain) >= 3
  /\ SubSeq(ret.bytes, 1, 64) # HashResult

\* C8: the MasterSeed is pbkdf2Sync(the mnemonic of the entropy,
\* "mnemonic" + passphrase, 2048, 64, "sha512") in every call, whatever the
\* inputs.
C8_Pbkdf2Parameters ==
  (caller = "generateLedgerMasterKey") =>
     /\ gen.pbkdf2 = [password |-> entropyToMnemonicAt[gen.seed].mnemonic,
                      salt |-> "mnemonic" \o gen.password,
                      iterations |-> 2048, keylen |-> 64, digest |-> "sha512"]
     /\ gen.masterSeed \in {e.derived : e \in PBKDF2_SAMPLES}
     /\ Len(gen.masterSeed) = 64

\* a derivation from a 24-word mnemonic, and one with a passphrase
C8_Witness ==
  /\ GenerateReturned
  /\ gen.password = "TREZOR"
  /\ \E k \in keys : k.seed = ART_ENTROPY

C10_WordCountError ==
  (/\ ValidateReturned
   /\ ret.input.t = "string"
   /\ ret.input.v # ""
   /\ NumberOfWords(ret.input.v) \notin {12, 15, 18, 21, 24})
    => /\ ret.threw
       /\ ret.text = "Invalid word count: " \o ToString(NumberOfWords(ret.input.v))
                        \o ". Must be 12, 15, 18, 21, or 24 words."

\* C11: null, undefined, the empty string and every value that is no string are
\* rejected with "Mnemonic must be a non-empty string", and with no other
\* error.
C11_NonEmptyStringError ==
  (ValidateReturned /\ (ret.input.t # "string" \/ ret.input.v = "")) =>
     /\ ret.threw
     /\ ret.text = "Mnemonic must be a non-empty string"

\* a truthy value that is no string has been rejected
C11_Witness ==
  /\ ValidateReturned
  /\ ret.input.t \in {"number", "object", "boolean"}
  /\ Truthy(ret.input)
  /\ ret.threw

\* C12: a checksum-valid mnemonic of 12, 15, 18, 21 or 24 words, with or
\* without white space before and after it, is accepted, and the value returned
\* is the mnemonic without that white space.
C12_ReturnsTrimmed ==
  (ValidateReturned /\ ret.input.t = "string") =>
     \A e \in ENTROPY_MNEMONIC_SAMPLES, p \in Paddings :
        (ret.input.v = p[1] \o e.mnemonic \o p[2]) =>
           /\ ~ret.threw
           /\ ret.text = e.mnemonic

\* a 24-word mnemonic with white space on both sides has been accepted
C12_Witness ==
  /\ ValidateReturned
  /\ ~ret.threw
  /\ NumberOfWords(ret.text) = 24
  /\ Len(ret.input.v) = Len(ret.text) + 5

C14_VerifierAfterCount ==
  ValidateReturned =>
     /\ Len(verifier) <= 1
     /\ (verifier # <<>>) =>
          /\ ret.input.t = "string"
          /\ NumberOfWords(ret.input.v) \in {12, 15, 18, 21, 24}
          /\ (verifier[1] \notin {e.mnemonic : e \in ENTROPY_MNEMONIC_SAMPLES}) =>
               (ret.threw /\ ret.text = "Invalid mnemonic checksum or word list")
     /\ (/\ ret.input.t = "string"
         /\ ret.input.v # ""
         /\ NumberOfWords(ret.input.v) \notin {12, 15, 18, 21, 24}) =>
          /\ verifier = <<>>
          /\ ret.threw
          /\ SubSeq(ret.text, 1, 20) = "Invalid word count: "

\* eleven words, the last of them in no word list, have been rejected for
\* their number
C14_Witness ==
  /\ ValidateReturned
  /\ ret.input = JsString(Words(11, "xyzzy", " "))
  /\ ret.threw
  /\ verifier = <<>>

\* C15: toByteArray(toHexString(b)) = b for every byte array b, the empty one
\* and the 256 bytes 0..255 among them.
C15_BytesRoundTrip ==
  (ret.fn = "toByteArray(toHexString)") =>
     /\ Len(ret.bytes) = Len(ret.data)
     /\ \A k \in 1..Len(ret.data) : ret.bytes[k] = ret.data[k]

\* the 256 bytes 0..255 have made the round trip
C15_Witness ==
  /\ ret.fn = "toByteArray(toHexString)"
  /\ Len(ret.data) = 256
  /\ Len(ret.input.v) = 512
  /\ ret.bytes[256] = 255

\* the digit of radix 16 for a value 0..15, in lower case
LowerHexDigit(v) == SubSeq("0123456789abcdef", v + 1, v + 1)

\* C16: toHexString of n bytes is a string of 2n characters, without
\* separators; characters 2i and 2i+1 are the two lower-case digits of byte i,
\* a leading zero included; the empty array gives the empty string.
C16_TwoDigitsPerByte ==
  (ret.fn = "toHexString") =>
     /\ Len(ret.text) = 2 * Len(ret.data)
     /\ \A i \in 0..(Len(ret.data) - 1) :
          /\ CharAt(ret.text, 2 * i + 1) = LowerHexDigit(ret.data[i + 1] \div 16)
          /\ CharAt(ret.text, 2 * i + 2) = LowerHexDigit(ret.data[i + 1] % 16)
     /\ (ret.data = <<>>) => (ret.text = "")

\* bytes below 16 and bytes with letters for digits have been written
C16_Witness ==
  /\ ret.fn = "toHexString"
  /\ ret.data = <<1, 2, 10, 15>>
  /\ ret.text = "01020a0f"

\* a letter in lower case
LowerChar(c) ==
  CASE c = "A" -> "a" [] c = "B" -> "b" [] c = "C" -> "c" [] c = "D" -> "d"
    [] c = "E" -> "e" [] c = "F" -> "f" [] OTHER -> c

RECURSIVE toLowerCase(_)
toLowerCase(s) == IF s = "" THEN "" ELSE LowerChar(CharAt(s, 1)) \o toLowerCase(Tail(s))

\* s is a string of digits of radix 16, in either case, of even length
IsEvenHex(s) ==
  /\ Len(s) % 2 = 0
  /\ \A k \in 1..Len(s) : CharAt(s, k) \in HexChars

\* C17: for a string s of an even number of digits of radix 16 in any case,
\* toByteArray(s) has |s|/2 elements, toHexString(toByteArray(s)) is s in
\* lower case, and s in lower case decodes to the same bytes.
C17_HexRoundTrip ==
  (ret.fn = "toHexString(toByteArray)" /\ IsEvenHex(ret.input.v)) =>
     /\ 2 * Len(ret.data) = Len(ret.input.v)
     /\ ret.text = toLowerCase(ret.input.v)
     /\ ret.data = toByteArray(toLowerCase(ret.input.v))

\* a string in mixed case has made the round trip
C17_Witness ==
  /\ ret.fn = "toHexString(toByteArray)"
  /\ ret.input.v = "DeadBeef"
  /\ ret.text = "deadbeef"
  /\ ret.data = <<222, 173, 190, 239>>

\* the lengths, in bytes, of a well-formed entropy
EntropyLengths == {16, 20, 24, 28, 32}

MessageLengths == {Len(msg) : msg \in HashInputs}

\* C19: whatever the length of the message (0, 1, 12, 64 or 1000 bytes), the
\* buffer a user's call of hashRepeatedly returns is 64 bytes long and
\* result[31] & 0b0010_0000 is 0.
C19_AnyLengthAccepted ==
  (ret.fn = "hashRepeatedly") =>
     /\ Len(ret.data) \in MessageLengths
     /\ Len(ret.bytes) = 64
     /\ BitAnd(ret.bytes[32], 32) = 0

\* hashRepeatedly has returned for the message of 1000 bytes, whose first
\* digest was rejected
C19_Witness ==
  /\ ret.fn = "hashRepeatedly"
  /\ ret.data = MESSAGE_A_LONG
  /\ Len(chain) = 2
  /\ BitAnd(chain[1][32], 32) = 32
  /\ ret.bytes = chain[2]
  /\ MessageLengths = {0, 1, 12, 64, 1000}

\* masterKey.slice(0, 64)
PrivateKey(masterKey) == SubSeq(masterKey, 1, 64)

\* C20: of every master key generateLedgerMasterKey has returned, for any
\* entropy and passphrase, the first 64 bytes k satisfy
\* k[0] & 0b0000_0111 == 0, k[31] & 0b1000_0000 == 0 and
\* k[31] & 0b0100_0000 == 0b0100_0000.
C20_PrivateKeyTweaked ==
  \A derived \in keys :
     LET k == PrivateKey(derived.key)
     IN  /\ Len(k) = 64
         /\ BitAnd(k[1], 7) = 0
         /\ BitAnd(k[32], 128) = 0
         /\ BitAnd(k[32], 64) = 64

\* keys have been returned for the entropy of the unit test with and without
\* a passphrase and for an entropy of 32 bytes, and the key just returned
\* comes from a digest the tweak changed in byte 0 and in byte 31
C20_Witness ==
  /\ GenerateReturned
  /\ \E derived \in keys : derived.seed = TEST_ENTROPY /\ derived.password = ""
  /\ \E derived \in keys : derived.seed = TEST_ENTROPY /\ derived.password # ""
  /\ \E derived \in keys : Len(derived.seed) = 64
  /\ BitAnd(Last(chain)[1], 7) # 0
  /\ BitAnd(Last(chain)[32], 192) # 64
  /\ PrivateKey(ret.bytes) # Last(chain)

\* C21: for a buffer x of at least 32 bytes, the result r of tweakBits(x) has
\* r[0] = x[0] & 0xF8 and r[31] = (x[31] & 0x7F) | 0x40; the 32 bytes 0xFF give
\* r[0] = 0xF8 and r[31] = 0x7F, and an all-zero buffer gives r[31] = 0x40.
C21_TweakedBytes ==
  (TweakReturned /\ Len(ret.data) >= 32) =>
     /\ ret.bytes[1] = BitAnd(ret.data[1], 248)
     /\ ret.bytes[32] = BitOr(BitAnd(ret.data[32], 127), 64)
     /\ (ret.data = Filled(32, 255)) => (ret.bytes[1] = 248 /\ ret.bytes[32] = 127)
     /\ (\A k \in 1..Len(ret.data) : ret.data[k] = 0) => ret.bytes[32] = 64

\* tweakBits has returned for the 32 bytes 0xFF
C21_Witness ==
  /\ TweakReturned
  /\ ret.data = Filled(32, 255)
  /\ ret.bytes[1] = 248
  /\ ret.bytes[32] = 127

\* C22: tweakBits returns the very buffer it was given, and the content of
\* that buffer after the call has the length it had before and differs from
\* it in no byte other than byte 0 and byte 31.
C22_InPlace ==
  TweakReturned =>
     /\ heap.returned = heap.argument
     /\ Len(heap.buffers) = 1
     /\ Len(heap.buffers[heap.argument]) = Len(ret.data)
     /\ \A k \in 1..Len(ret.data) :
          (k \notin {1, 32}) => heap.buffers[heap.argument][k] = ret.data[k]

\* tweakBits has returned for the buffer with 0xff in bytes 0 and 31, and the
\* buffer it was given has changed in both
C22_Witness ==
  /\ TweakReturned
  /\ ret.data = TEST_BOTH_FF
  /\ heap.returned = heap.argument
  /\ heap.buffers[heap.argument][1] # ret.data[1]
  /\ heap.buffers[heap.argument][32] # ret.data[32]

\* the run of node index.js has ended
Exited == cli.pc = "exited"

\* the run has written masterString to stdout, alone or after its label
Prints(masterString) ==
  \E k \in 1..Len(cli.stdout) : cli.stdout[k] \in {masterString, KeyLine(masterString)}

\* the command line has the token --test
HasTestToken == \E k \in 1..Len(cli.argv) : cli.argv[k] = "--test"

\* C23 as stated: every run of the CLI whose command line has --test, whatever
\* the other options, the environment and stdin, derives from the canonical
\* test mnemonic and prints the master key of the known vector.
C23_TestAlwaysKnownVector ==
  (Exited /\ HasTestToken) =>
     /\ cli.mnemonic = CANONICAL_TEST_MNEMONIC
     /\ Prints(TEST_EXPECTED_MASTER_KEY)

\* C23 amended: every run in which --test is taken as an option, no help is
\* asked for (no --help, -h or unknown option) and the passphrase is empty (no
\* --passphrase value, PASSPHRASE unset or empty), whatever --mnemonic,
\* MNEMONIC and stdin hold, derives from the canonical test mnemonic, prints
\* the master key of the known vector and exits with status 0.
C23_TestKnownVector ==
  (/\ Exited
   /\ cli.args.testMode
   /\ ~cli.args.help
   /\ cli.args.passphrase = ""
   /\ ~Truthy(cli.env.PASSPHRASE)) =>
     /\ cli.source = "test"
     /\ cli.mnemonic = CANONICAL_TEST_MNEMONIC
     /\ Prints(TEST_EXPECTED_MASTER_KEY)
     /\ cli.exitCode = 0

\* a run with --test has printed the key of the known vector although the
\* command line, the environment and a piped stdin each held another mnemonic
C23_Witness ==
  /\ Exited
  /\ cli.args.testMode
  /\ Truthy(cli.args.mnemonic)
  /\ cli.args.mnemonic.v # CANONICAL_TEST_MNEMONIC
  /\ Truthy(cli.env.MNEMONIC)
  /\ ~cli.stdin.isTTY
  /\ cli.stdin.data # ""
  /\ ~Truthy(cli.env.PASSPHRASE)
  /\ cli.args.passphrase = ""
  /\ Prints(TEST_EXPECTED_MASTER_KEY)

\* the run has ended after generateLedgerMasterKey returned a key to main
Derived == Exited /\ cli.mnemonic # "" /\ GenerateReturned

\* C24: in every run with --derive-only whose derivation succeeds, whatever
\* the source of the mnemonic (--test included), stdout holds the master key
\* of 192 hex digits and nothing else, and the exit status is 0.
C24_DeriveOnlyStdout ==
  (Derived /\ cli.args.deriveOnly) =>
     /\ cli.stdout = <<toHexString(ret.bytes)>>
     /\ Len(toHexString(ret.bytes)) = 192
     /\ cli.exitCode = 0

\* the text ends with 192 hex digits, as every write of a master key does
EndsWithKey(text) ==
  /\ Len(text) >= 192
  /\ \A k \in (Len(text) - 191)..Len(text) : IsHexDigit(CharAt(text, k))

\* main got past the help and either found no source of a mnemonic or took
\* one that validateMnemonic rejects
NoValidMnemonic ==
  /\ cli.pc # "none"
  /\ ~cli.args.help
  /\ \/ cli.source = "none"
     \/ validateMnemonicAt[cli.selected].threw

\* the message of the error of such a run
NoValidMnemonicMessage ==
  IF cli.source = "none" THEN NoMnemonicError ELSE validateMnemonicAt[cli.selected].value

\* C25: a run in which no source of a mnemonic is available, or the mnemonic
\* taken fails validateMnemonic, ends with the error on stderr and a non-zero
\* exit status; generateLedgerMasterKey is never called and no master key is
\* written.
C25_InvalidMnemonicFails ==
  NoValidMnemonic =>
     /\ Exited
     /\ \E k \in 1..Len(cli.stderr) : cli.stderr[k] = ErrorLine(NoValidMnemonicMessage)
     /\ cli.exitCode # 0
     /\ gen = NoFrame /\ ret = NoReturn /\ keys = {} /\ chain = <<>>
     /\ \A k \in 1..Len(cli.stdout) : ~EndsWithKey(cli.stdout[k])

\* the run of the docker test: four words on a piped stdin, rejected by their
\* count, status 1
C25_Witness ==
  /\ Exited
  /\ cli.source = "stdin"
  /\ cli.selected = JsString(INVALID_MNEMONIC)
  /\ cli.stderr[1] = ErrorLine(WordCountError(4))
  /\ cli.exitCode = 1
  /\ cli.stdout = <<>>

\* a value is a string with at least one character
NonEmpty(x) == x.t = "string" /\ x.v # ""

\* the place of a source in the order of priority
Priority(source) ==
  CASE source = "test" -> 1
    [] source = "argument" -> 2
    [] source = "environment" -> 3
    [] source = "stdin" -> 4
    [] source = "prompt" -> 5
    [] OTHER -> 6

\* the source the order of priority gives for the run
FirstSource ==
  IF cli.args.testMode THEN "test"
  ELSE IF NonEmpty(cli.args.mnemonic) THEN "argument"
  ELSE IF NonEmpty(cli.env.MNEMONIC) THEN "environment"
  ELSE IF ~cli.stdin.isTTY THEN "stdin"
  ELSE IF ~cli.args.deriveOnly /\ ~cli.args.noInteractive THEN "prompt"
  ELSE "none"

\* what a source holds
SourceValue(source) ==
  CASE source = "test" -> JsString(CANONICAL_TEST_MNEMONIC)
    [] source = "argument" -> cli.args.mnemonic
    [] source = "environment" -> cli.env.MNEMONIC
    [] source = "stdin" -> JsString(trim(cli.stdin.data))
    [] source = "prompt" -> JsString(FirstLine(cli.stdin.data))
    [] OTHER -> JsUndefined

\* C29: main takes the mnemonic from one source, the first that applies of
\* --test, a non-empty --mnemonic, a non-empty MNEMONIC, a piped stdin and the
\* prompt; the prompt is used only without --derive-only and --no-interactive;
\* no source of lower priority than the one taken is read; and with no source
\* the run fails with "No mnemonic provided".
C29_SourcePriority ==
  (cli.pc # "none" /\ ~cli.args.help) =>
     /\ cli.source = FirstSource
     /\ cli.selected = SourceValue(cli.source)
     /\ \A r \in cli.reads : Priority(r) <= Priority(cli.source)
     /\ (cli.source = "prompt") => (~cli.args.deriveOnly /\ ~cli.args.noInteractive)
     /\ (cli.source = "none") =>
          /\ Exited
          /\ \E k \in 1..Len(cli.stderr) : cli.stderr[k] = ErrorLine(NoMnemonicError)
          /\ cli.exitCode = 1

\* a run without --test took the mnemonic of --mnemonic and read neither the
\* MNEMONIC of the environment nor the sentence piped to stdin
C29_Witness ==
  /\ Exited
  /\ ~cli.args.testMode
  /\ NonEmpty(cli.args.mnemonic)
  /\ NonEmpty(cli.env.MNEMONIC)
  /\ ~cli.stdin.isTTY
  /\ cli.stdin.data # ""
  /\ cli.source = "argument"
  /\ cli.reads = {"argument"}
  /\ cli.mnemonic = cli.args.mnemonic.v
  /\ cli.exitCode = 0

\* C28: the digests of a call of hashRepeatedly form the chain
\* h1 = HMAC(seed), h(k+1) = HMAC(h(k)); every digest before the last was
\* rejected, the rejected digest is, unchanged, the message of the next frame,
\* what is returned is the last digest and it is accepted, and the buffer the
\* call was given still holds the seed.
C28_FirstAccepted ==
  /\ (pc = "hashing") =>
        /\ message = (IF chain = <<>> THEN hashArg ELSE Last(chain))
        /\ \A k \in 1..Len(chain) : Rejected(chain[k])
        /\ heap.buffers[heap.argument] = hashArg
  /\ (chain # <<>>) =>
        /\ chain[1] = HmacSha512(HashKey, hashArg)
        /\ \A k \in 2..Len(chain) : chain[k] = HmacSha512(HashKey, chain[k - 1])
        /\ heap.buffers[heap.argument] = hashArg
  /\ HashReturned =>
        /\ \A k \in 1..(Len(chain) - 1) : Rejected(chain[k])
        /\ ~Rejected(HashResult)
        /\ (caller = "user") =>
              /\ ret.bytes = HashResult
              /\ heap.buffers[heap.returned] = HashResult
              /\ heap.returned # heap.argument

\* hashRepeatedly has returned the fifth digest of the chain of a master
\* seed to generateLedgerMasterKey: four digests were rejected before it, and
\* the buffer of the master seed holds what it held
C28_Witness ==
  /\ HashReturned
  /\ caller = "generateLedgerMasterKey"
  /\ Len(chain) = 5
  /\ \A k \in 1..4 : Rejected(chain[k])
  /\ ~Rejected(chain[5])
  /\ hashArg = gen.masterSeed
  /\ heap.buffers[heap.argument] = gen.masterSeed

\* C30: the tweak leaves the bit the acceptance test looks at (bit 5 of byte
\* 31) as it was, so byte 31 of every master key has its three highest bits
\* 0, 1, 0: key[31] & 0b1110_0000 = 0b0100_0000.
C30_TestedBitKept ==
  /\ \A derived \in keys : BitAnd(derived.key[32], 224) = 64
  /\ GenerateReturned =>
        /\ Bit(ret.bytes[32], 5) = Bit(HashResult[32], 5)
        /\ ~Rejected(ret.bytes)
  /\ (TweakReturned /\ Len(ret.data) >= 32) =>
        Bit(ret.bytes[32], 5) = Bit(ret.data[32], 5)

\* a key has been returned after two digests were rejected; the tweak changed
\* the two highest bits of byte 31 of the accepted digest and not bit 5
C30_Witness ==
  /\ GenerateReturned
  /\ Len(chain) >= 3
  /\ BitAnd(HashResult[32], 192) # 64
  /\ BitAnd(HashResult[32], 32) = 0
  /\ BitAnd(ret.bytes[32], 224) = 64

\* the run of convert.sh has ended
ShExited == sh.pc = "exited"

\* the run took a master key that is not hexadecimal and is no seed phrase
NonHexKeyGiven ==
  /\ sh.ORIGINAL_MASTERKEY # ""
  /\ ~IsHexString(sh.ORIGINAL_MASTERKEY)
  /\ NumberOfWords(sh.ORIGINAL_MASTERKEY) \notin {12, 15, 18, 21, 24}

\* a key file is in one of the output directories
KeyFileWritten == \E dir \in 1..Len(sh.fs) : sh.fs[dir].files \cap KeyFiles # {}

\* C26: a run of convert.sh that is given a master key that is not hexadecimal
\* ("invalid_key") ends with a status that is not 0 and with "Master key must
\* be hexadecimal" on stderr, and writes no key file.
C26_NonHexReported ==
  (ShExited /\ NonHexKeyGiven) =>
     /\ sh.exitCode # 0
     /\ \E k \in 1..Len(sh.stderr) : sh.stderr[k] = error(MustBeHexadecimal)
     /\ ~KeyFileWritten

\* what stdin holds up to its first newline, or all of it
FirstOfStdin == IF sh.stdin.lines # <<>> THEN Head(sh.stdin.lines) ELSE sh.stdin.rest

\* the run of the output directory tests: NON_INTERACTIVE=1, the output
\* directory as the only argument, a master key of 192 hex digits piped in
PipedKeyRun ==
  /\ sh.env.NON_INTERACTIVE = JsString("1")
  /\ Len(sh.argv) = 1
  /\ ~sh.stdin.isTTY
  /\ IsHexString(FirstOfStdin)
  /\ Len(FirstOfStdin) = 192

\* C27: after a run of convert.sh with NON_INTERACTIVE=1, an output directory
\* argument and a valid key of 192 hex digits on stdin, the output directory
\* exists and none of the files it held before is left, also when the run
\* fails because the cardano tools are not installed.
C27_OutputDirectoryReady ==
  (ShExited /\ PipedKeyRun) =>
     /\ sh.fs[1].exists
     /\ sh.fs[1].files \cap sh.before.files = {}
====
